---- MODULE Spec2Model ----
(***************************************************************************)
(* The AWS Batch adapter of toil (toil/batchSystems/awsBatch.py,           *)
(* class AWSBatchBatchSystem) as a state machine: the id registry, the     *)
(* killed-set, the lazily created job definition, and the backend the      *)
(* adapter talks to.                                                       *)
(*                                                                         *)
(* Spec       one caller: every operation is one action. A call of         *)
(*            getUpdatedBatchJob with maxWait > 0 is a loop of polling     *)
(*            passes with sleeps in between, during which the backend      *)
(*            moves: the action is a call whose time is up after one pass. *)
(* SpecKills  the same program, recording which ids killBatchJobs has      *)
(*            confirmed instead of the calls and the events.               *)
(* SpecDetails  the same program, recording of each poll its passes and    *)
(*            the details of the event it returned.                        *)
(* SpecErrors the same program, recording of each call the error that      *)
(*            ended it and how often the failing backend call was made.    *)
(* SpecKilled the same program, recording the ids of each killBatchJobs.   *)
(* SpecShutdown  the same program, recording which jobs were outstanding  *)
(*            when a shutdown had cancelled them all.                      *)
(* SpecEnv    the same program with setEnv, recording the environment of   *)
(*            each submission.                                             *)
(* SpecC      several threads inside issueBatchJob, one action per         *)
(*            statement between which another thread can run.              *)
(* SpecRace   a thread issuing, one polling and one killing, one action    *)
(*            per statement; SpecCancel is the same without the poll.      *)
(* SpecWait   a thread issuing and one killing, with the loop of           *)
(*            _wait_until_stopped one action per statement.                *)
(* SpecPolls  a thread issuing and two polling, one action per statement.  *)
(* SpecOrder  the same program as Spec, recording the backend calls of     *)
(*            each killBatchJobs in order.                                 *)
(* SpecRunning  the same program, recording of each                        *)
(*            getRunningBatchJobIDs the JobDetails it saw and its result.  *)
(* SpecKillsOpen  SpecKills without shutdown.                              *)
(* SpecBatches  the generator _describe_jobs_in_batches over a registry    *)
(*            of up to MaxRegistered handles.                              *)
(* SpecReconcile  the same program as Spec, recording of each poll its     *)
(*            result and the answer of the backend it went through.        *)
(* SpecRepeated  Spec with a backend whose submit_job can return the       *)
(*            handle of a job that is still registered.                    *)
(* SpecNames  _ensafen_name applied to a name and to its own result.       *)
(* SpecRuntime  _get_runtime applied to a JobDetail.                       *)
(* SpecLsf    getJobExitCode of the LSF adapter (toil/batchSystems/lsf.py) *)
(*            applied to what bjobs and bacct print.                       *)
(***************************************************************************)
EXTENDS Integers, Sequences, FiniteSets, TLC

\* ---------------------------------------------------------------- bounds
\* Internal job ids handed out in one run: 0 .. MaxJobs-1.
MaxJobs == 2
\* Job definitions the backend registers in one run.
MaxTemplates == 2
\* Threads of SpecC.
NThreads == 2
\* Size of the registry of SpecBatches: 0 .. MaxRegistered handles.
MaxRegistered == 250

\* Length of the job names of SpecNames that are enumerated character by
\* character; names around NAME_LIMIT characters are added to them.
MaxNameLen == 3

\* ------------------------------------------------------ program constants
MIN_REQUESTABLE_MIB == 4
MIN_REQUESTABLE_CORES == 1

\* self.job_definition = None
NoDefinition == 0
\* getUpdatedBatchJob's "return None"; also "no value" in the record of a call
NoUpdate == -1

\* kept_chars[:128]
NAME_LIMIT == 128

\* MAX_POLL_COUNT = 100
MAX_POLL_COUNT == 100

MiB == 1048576
\* cores are rationals in the code; the model counts them in hundredths
CoreUnit == 100

\* constructor arguments maxCores, maxMemory, maxDisk
maxCores == 4 * CoreUnit
maxMemory == 16 * MiB
maxDisk == 1000

Threads == 1 .. NThreads
JobIds == 0 .. MaxJobs
\* an id issueBatchJob never returns in a run of this size
UnknownId == MaxJobs

VARIABLES
    nextJobID,            \* the local support's job counter (getNextJobID)
    localRunning,         \* local sub-scheduler: ids issued and not finished
    localUpdated,         \* local sub-scheduler: ids finished, not yet reported
    job_definition,       \* self.job_definition
    bs_id_to_aws_id,      \* self.bs_id_to_aws_id
    aws_id_to_bs_id,      \* self.aws_id_to_bs_id
    killed_job_aws_ids,   \* self.killed_job_aws_ids
    status,               \* backend: status[h] of the job with handle h
    registered,           \* backend: job definitions currently registered
    created,              \* backend: job definitions ever registered
    observe,              \* which history the run records ("calls", "kills", ...)
    environment,          \* self.environment (BatchSystemSupport)
    input_name,           \* SpecNames: the argument of _ensafen_name
    safe_name,            \* SpecNames: its result (<<>>: not applied yet)
    safe_twice,           \* SpecNames: the result of applying it to safe_name
    lastOp,               \* the last call of the caller and what it returned
    emitted,              \* emitted[id]: completion events returned for id
    everKilled,           \* ids whose handle _try_terminate has flagged
    killReturned,         \* ids given to a killBatchJobs call that returned normally
    atShutdown,           \* ids in the registry when a shutdown had made all its cancels
    drainStart,           \* not-killed terminal jobs when a run of polls began
    drainResults,         \* what the polls of that run returned, in order
    pc,                   \* SpecC: where each thread is inside issueBatchJob
    t_bs_id,              \* SpecC: the thread's bs_id
    t_arn,                \* SpecC: the thread's register response / returned ARN
    t_aws_id,             \* SpecC: the thread's aws_id
    p_pc,                 \* SpecRace: where the polling thread is in getUpdatedBatchJob
    p_jobs,               \* SpecRace: the finished JobDetails its loop has yet to see
    acknowledged,         \* SpecRace: its list 'acknowledged'
    p_result,             \* SpecRace: the bs_id of the event it returns
    k_pc,                 \* SpecRace: where the killing thread is
    k_op,                 \* SpecRace: the operation that called _try_terminate
    k_aws_id,             \* SpecRace: the handle given to _try_terminate
    k_i,                  \* SpecRace: the statement of _try_terminate it is at
    k_attempt,            \* SpecRace: which attempt of the retry this is
    k_added,              \* SpecRace: this attempt has added the handle to the killed-set
    w_seen,               \* SpecWait: the status the last describe of _wait_until_stopped showed
    w_attempt,            \* SpecWait: attempts of _wait_until_stopped that have failed
    rt_job_detail,        \* SpecRuntime: the JobDetail given to _get_runtime
    now_ms,               \* SpecRuntime: what unix_now_ms() returns
    runtime,              \* SpecRuntime: the result of _get_runtime (<<>>: not applied yet)
    lsfJobID,             \* SpecLsf: the argument of getJobExitCode
    bjobs,                \* SpecLsf: the lines 'bjobs -l' prints
    bacct,                \* SpecLsf: the lines 'bacct -l' prints
    exit_code,            \* SpecLsf: how getJobExitCode ended (<<>>: not called yet)
    b_pc,                 \* SpecBatches: where _describe_jobs_in_batches is
    b_registered,         \* SpecBatches: handles in the registry when it is called
    to_check,             \* SpecBatches: its list to_check
    check_batches,        \* SpecBatches: the batches it has sent to describe_jobs
    polls                 \* SpecPolls: each polling thread's place and locals in getUpdatedBatchJob

vars == <<nextJobID, localRunning, localUpdated, job_definition, bs_id_to_aws_id,
          aws_id_to_bs_id, killed_job_aws_ids, status, registered, created,
          observe, environment, input_name, safe_name, safe_twice, lastOp,
          emitted, everKilled, killReturned, atShutdown, drainStart, drainResults, pc, t_bs_id,
          t_arn, t_aws_id, p_pc, p_jobs, acknowledged, p_result, k_pc, k_op,
          k_aws_id, k_i, k_attempt, k_added, w_seen, w_attempt, rt_job_detail, now_ms, runtime,
          lsfJobID, bjobs, bacct, exit_code, b_pc, b_registered, to_check,
          check_batches, polls>>

adapterVars == <<nextJobID, job_definition, bs_id_to_aws_id, aws_id_to_bs_id,
                 killed_job_aws_ids>>
localVars == <<localRunning, localUpdated>>
backendVars == <<status, registered, created>>
pollerVars == <<p_pc, p_jobs, acknowledged, p_result>>
killerVars == <<k_pc, k_op, k_aws_id, k_i, k_attempt, k_added, w_seen, w_attempt>>
raceVars == <<pollerVars, killerVars>>
issuerVars == <<pc, t_bs_id, t_arn, t_aws_id>>
threadVars == <<issuerVars, raceVars>>
nameVars == <<input_name, safe_name, safe_twice>>
runtimeVars == <<rt_job_detail, now_ms, runtime>>
lsfVars == <<lsfJobID, bjobs, bacct, exit_code>>
batchVars == <<b_pc, b_registered, to_check, check_batches>>
pureVars == <<nameVars, runtimeVars, lsfVars, batchVars>>
\* what no operation of the adapter's single caller changes, setEnv aside
fixedVars == <<observe, environment, pureVars, polls>>
historyVars == <<emitted, everKilled, killReturned, atShutdown>>
drainVars == <<drainStart, drainResults>>
\* what the single caller of Spec keeps and sees; the threads of SpecC leave it
callerVars == <<localRunning, localUpdated, fixedVars, lastOp, historyVars, drainStart, drainResults>>

\* ---------------------------------------------------------------- helpers
Max(a, b) == IF a >= b THEN a ELSE b

Range(f) == {f[x] : x \in DOMAIN f}

\* d[k] = v on a dict
Put(d, k, v) == [x \in DOMAIN d \cup {k} |-> IF x = k THEN v ELSE d[x]]

\* del d[k] on a dict that holds k
Del(d, k) == [x \in DOMAIN d \ {k} |-> d[x]]

EmptyDict == [x \in {} |-> 0]

\* the elements of a finite set of integers in increasing order
RECURSIVE Sorted(_)
Sorted(S) == IF S = {} THEN <<>> ELSE LET m == CHOOSE x \in S : \A y \in S : x <= y IN <<m>> \o Sorted(S \ {m})

\* every ordering of a finite set
RECURSIVE Orderings(_)
Orderings(S) == IF S = {} THEN {<<>>} ELSE UNION {{<<x>> \o o : o \in Orderings(S \ {x})} : x \in S}

\* ------------------------------------------------------------ job inputs
\* A JobDescription as issueBatchJob reads it: whether the local support takes
\* it, memory in bytes, cores in hundredths, disk in bytes.
NoJob == [local |-> FALSE, memory |-> 0, cores |-> 0, disk |-> 0]

JobDescriptions ==
    { [local |-> TRUE,  memory |-> MiB,         cores |-> CoreUnit,       disk |-> 100],
      [local |-> FALSE, memory |-> 1,           cores |-> 1,              disk |-> 100],
      [local |-> FALSE, memory |-> 5 * MiB + 1, cores |-> 250,            disk |-> 100],
      [local |-> FALSE, memory |-> 8 * MiB,     cores |-> 2 * CoreUnit,   disk |-> 100],
      [local |-> FALSE, memory |-> maxMemory + 1, cores |-> CoreUnit,     disk |-> 100],
      [local |-> FALSE, memory |-> MiB,         cores |-> maxCores + 1,   disk |-> 100] }

\* checkResourceRequest(memory, cores, disk) raises unless this holds
checkResourceRequest(job) == job.cores <= maxCores /\ job.memory <= maxMemory /\ job.disk <= maxDisk

\* math.ceil(b_to_mib(n)): n / 2^20 rounded up
b_to_mib_ceil(n) == (n + MiB - 1) \div MiB

\* math.ceil(cores)
ceil_cores(c) == (c + CoreUnit - 1) \div CoreUnit

\* mutant: the division rounds down
MemoryValue_floor(job) == Max(MIN_REQUESTABLE_MIB, job.memory \div MiB)

\* the MEMORY value of the submission
MemoryValue(job) == Max(MIN_REQUESTABLE_MIB, b_to_mib_ceil(job.memory))

\* the VCPU value of the submission
VcpuValue(job) == Max(MIN_REQUESTABLE_CORES, ceil_cores(job.cores))

NoSent == [MEMORY |-> 0, VCPU |-> 0]
resourceRequirements(job) == [MEMORY |-> MemoryValue(job), VCPU |-> VcpuValue(job)]

\* ---------------------------------------------------------------- backend
Statuses == {"RUNNABLE", "RUNNING", "SUCCEEDED", "FAILED", "GONE"}

\* the backend's own notion of a finished job
BackendTerminal(s) == s \in {"SUCCEEDED", "FAILED"}

\* statuses a job in status s can show later (a terminal or vanished job
\* never runs again; a finished job's record can expire)
Later(s) ==
    CASE s = "RUNNABLE" -> {"RUNNABLE", "RUNNING", "SUCCEEDED", "FAILED", "GONE"}
      [] s = "RUNNING" -> {"RUNNING", "SUCCEEDED", "FAILED", "GONE"}
      [] s = "SUCCEEDED" -> {"SUCCEEDED", "GONE"}
      [] s = "FAILED" -> {"FAILED", "GONE"}
      [] OTHER -> {"GONE"}

Handles == 1 .. Len(status)

\* describe_jobs(jobs=hs): a JobDetail for each job the backend still knows
Described(hs) == {h \in hs : h \in Handles /\ status[h] # "GONE"}

\* -------------------------------------------------------- job details
\* EXIT_STATUS_UNAVAILABLE_VALUE of toil.batchSystems.abstractBatchSystem
EXIT_STATUS_UNAVAILABLE_VALUE == 255

STATE_TO_EXIT_REASON == [SUCCEEDED |-> "FINISHED", FAILED |-> "FAILED"]

\* What a JobDetail says of the container: no 'container' entry, one without
\* an 'exitCode', or one with an exit code.
NoContainer == [container |-> FALSE, exitCode |-> NoUpdate]
ContainerReports ==
    { NoContainer,
      [container |-> TRUE, exitCode |-> NoUpdate],
      [container |-> TRUE, exitCode |-> 0],
      [container |-> TRUE, exitCode |-> 1] }

\* mutant: a missing exit code counts as success
get_exit_code_zero(job_detail) == IF job_detail.container /\ job_detail.exitCode # NoUpdate THEN job_detail.exitCode ELSE 0

\* int(job_detail.get('container', {}).get('exitCode', EXIT_STATUS_UNAVAILABLE_VALUE))
get_exit_code(job_detail) == IF job_detail.container /\ job_detail.exitCode # NoUpdate THEN job_detail.exitCode ELSE EXIT_STATUS_UNAVAILABLE_VALUE

\* ------------------------------------------------------------------ retry
\* the functions that carry @retry(errors=[BotoServerError])
Retried == {"_try_terminate", "_wait_until_stopped", "_get_or_create_job_definition", "_destroy_job_definition"}

\* attempts toil.lib.retry makes before it lets a retryable error out
RETRY_ATTEMPTS == 3

\* how often the failing backend call of a function was made when the error
\* reaches the caller of the function
Attempts(function, cause) == IF function \in Retried /\ cause = "transient" THEN RETRY_ATTEMPTS ELSE 1

\* ------------------------------------------------------------- call record
\* What a run that observes details keeps of a call beyond its result.
NoMore ==
    [cause |-> "none", attempts |-> 0, job_ids |-> {}, maxWait |-> NoUpdate,
     passes |-> 0, describes |-> 0, sleeps |-> 0, status |-> "none",
     container |-> NoContainer, exitStatus |-> NoUpdate, exitReason |-> "none",
     unfaithful |-> FALSE, submitted |-> FALSE, job_environment |-> EmptyDict,
     environment |-> EmptyDict, answer |-> <<>>, calls |-> <<>>,
     details |-> <<>>, snapshot |-> <<>>]

Record(op, ret, raised, ids, job, sent) == [op |-> op, ret |-> ret, raised |-> raised, ids |-> ids, job |-> job, sent |-> sent, more |-> NoMore]

\* A run that observes kills keeps only what getRunningBatchJobIDs returned.
Call(op, ret, raised, ids, job, sent) == IF observe = "calls" \/ op = "getRunningBatchJobIDs" THEN Record(op, ret, raised, ids, job, sent) ELSE Record("other", NoUpdate, FALSE, {}, NoJob, NoSent)

Plain(op, ret, raised) == Call(op, ret, raised, {}, NoJob, NoSent)

\* A run that observes details keeps them instead of the job and what was
\* sent for it; a run that observes errors keeps the error that ended the
\* call; a run that observes the killed keeps only the ids of a
\* killBatchJobs call; a run that observes shutdown keeps the results of
\* shutdown and of the polls; a run that observes the reconciler keeps the
\* result of a poll and the answer of the backend it went through; a run
\* that observes the order keeps the backend calls of a killBatchJobs; a run
\* that observes the running keeps the JobDetails and the result of a
\* getRunningBatchJobIDs; a run that observes the environment keeps
\* only the environment of a submission.
Note(op, ret, raised, ids, job, sent, more) ==
    IF observe = "details" THEN [Record(op, ret, raised, ids, NoJob, NoSent) EXCEPT !.more = [more EXCEPT !.job_ids = {}, !.answer = <<>>, !.calls = <<>>]]
    ELSE IF observe = "errors" THEN [Record(op, NoUpdate, raised, {}, NoJob, NoSent) EXCEPT !.more = [NoMore EXCEPT !.cause = more.cause, !.attempts = more.attempts]]
    ELSE IF observe = "killed" THEN [Record(IF op = "killBatchJobs" THEN op ELSE "other", NoUpdate, op = "killBatchJobs" /\ raised, {}, NoJob, NoSent) EXCEPT !.more = [NoMore EXCEPT !.job_ids = more.job_ids]]
    ELSE IF observe = "shutdown" THEN (IF op \in {"shutdown", "getUpdatedBatchJob"} THEN Record(op, ret, raised, {}, NoJob, NoSent) ELSE Record("other", NoUpdate, FALSE, {}, NoJob, NoSent))
    ELSE IF observe = "order" THEN (IF op = "killBatchJobs" THEN [Record(op, NoUpdate, raised, {}, NoJob, NoSent) EXCEPT !.more = [NoMore EXCEPT !.job_ids = more.job_ids, !.calls = more.calls]] ELSE Record("other", NoUpdate, FALSE, {}, NoJob, NoSent))
    ELSE IF observe = "reconcile" THEN (IF op = "getUpdatedBatchJob" THEN [Record(op, ret, raised, {}, NoJob, NoSent) EXCEPT !.more = [NoMore EXCEPT !.answer = more.answer]] ELSE Record(IF op = "killBatchJobs" THEN op ELSE "other", NoUpdate, FALSE, {}, NoJob, NoSent))
    ELSE IF observe = "running" THEN (IF op = "getRunningBatchJobIDs" THEN [Record(op, NoUpdate, raised, ids, NoJob, NoSent) EXCEPT !.more = [NoMore EXCEPT !.details = more.details, !.snapshot = more.snapshot]] ELSE Record("other", NoUpdate, FALSE, {}, NoJob, NoSent))
    ELSE IF observe = "env" THEN [Record(IF op \in {"issueBatchJob", "setEnv"} THEN op ELSE "other", NoUpdate, FALSE, {}, NoJob, NoSent) EXCEPT !.more = [NoMore EXCEPT !.submitted = more.submitted, !.job_environment = more.job_environment, !.environment = more.environment]]
    ELSE Call(op, ret, raised, ids, job, sent)

\* the kinds of error a backend call raises: the retryable kind
\* (BotoServerError) and any other
Causes == IF observe = "errors" THEN {"transient", "other"} ELSE {"other"}

\* the error reached the caller of function after these attempts
Failure(function, cause) == [NoMore EXCEPT !.cause = cause, !.attempts = Attempts(function, cause)]

\* Any step that is not a poll of a draining run ends the run.
ResetDrain == drainStart' = {} /\ drainResults' = <<>>

\* ------------------------------------------------- arguments of _get_runtime
\* the statuses AWS Batch gives a job
JobStatuses == {"SUBMITTED", "PENDING", "RUNNABLE", "STARTING", "RUNNING", "SUCCEEDED", "FAILED"}

\* timestamps of a JobDetail and readings of the clock, in milliseconds
Timestamps == {0, 1, 1000, 2500}
ClockReadings == {1000, 4000}

\* A JobDetail: the keys the dict holds and the values under them (the value
\* of a key the dict does not hold is never read and is fixed).
Detail(keys, s, startedAt, stoppedAt) ==
    [keys |-> keys,
     status |-> IF "status" \in keys THEN s ELSE "SUBMITTED",
     startedAt |-> IF "startedAt" \in keys THEN startedAt ELSE 0,
     stoppedAt |-> IF "stoppedAt" \in keys THEN stoppedAt ELSE 0]

JobDetails == {Detail(keys, s, a, b) : keys \in SUBSET {"status", "startedAt", "stoppedAt"}, s \in JobStatuses, a \in Timestamps, b \in Timestamps}

NoDetail == Detail({}, "SUBMITTED", 0, 0)

\* -------------------------------------------- arguments of getJobExitCode
\* the phrases getJobExitCode looks for
BjobsPhrases == {"Done successfully", "Completed <exit>", "New job is waiting for scheduling", "PENDING REASONS", "Started on "}
BacctPhrases == {"Completed <done>", "Completed <exit>"}

\* A line of output is the set of these phrases that occur in it.
OutputLines == {{}} \cup {{ph} : ph \in BjobsPhrases \cup BacctPhrases} \cup {{"Started on ", "Completed <exit>"}}

\* what a tool prints: up to two lines
Outputs == {<<>>} \cup {<<a>> : a \in OutputLines} \cup {<<a, b>> : a, b \in OutputLines}

\* The ids a caller can pass: the number submitJob returned, or the text of
\* getBatchSystemID, with or without a task.
LsfJobIDs == {[type |-> "int", dotted |-> FALSE], [type |-> "str", dotted |-> FALSE], [type |-> "str", dotted |-> TRUE]}

RuntimeIdle == rt_job_detail = NoDetail /\ now_ms = 0 /\ runtime = <<>>

LsfIdle == lsfJobID = [type |-> "int", dotted |-> FALSE] /\ bjobs = <<>> /\ bacct = <<>> /\ exit_code = <<>>

BatchesIdle == b_pc = "idle" /\ b_registered = 0 /\ to_check = <<>> /\ check_batches = <<>>

\* the threads of SpecPolls that call getUpdatedBatchJob
PollThreads == {1, 2}

\* a polling thread outside getUpdatedBatchJob; events: the ids of the
\* completion events its calls have returned
NoPoll == [pc |-> "idle", jobs |-> <<>>, acknowledged |-> <<>>, result |-> NoUpdate, raised |-> FALSE, events |-> <<>>]

StartAdapter(mode, name) ==
    /\ polls = [t \in PollThreads |-> NoPoll]
    /\ nextJobID = 0
    /\ localRunning = {}
    /\ localUpdated = {}
    /\ job_definition = NoDefinition
    /\ bs_id_to_aws_id = EmptyDict
    /\ aws_id_to_bs_id = EmptyDict
    /\ killed_job_aws_ids = {}
    /\ status = <<>>
    /\ registered = {}
    /\ created = 0
    /\ observe = mode
    /\ environment = EmptyDict
    /\ input_name = name
    /\ safe_name = <<>>
    /\ safe_twice = <<>>
    /\ lastOp = Record("init", NoUpdate, FALSE, {}, NoJob, NoSent)
    /\ emitted = [id \in JobIds |-> 0]
    /\ everKilled = {}
    /\ killReturned = {}
    /\ atShutdown = {}
    /\ drainStart = {}
    /\ drainResults = <<>>
    /\ pc = [t \in Threads |-> "idle"]
    /\ t_bs_id = [t \in Threads |-> NoUpdate]
    /\ t_arn = [t \in Threads |-> NoDefinition]
    /\ t_aws_id = [t \in Threads |-> 0]
    /\ p_pc = "idle"
    /\ p_jobs = <<>>
    /\ acknowledged = <<>>
    /\ p_result = NoUpdate
    /\ k_pc = "idle"
    /\ k_op = "none"
    /\ k_aws_id = 0
    /\ k_i = 0
    /\ k_attempt = 0
    /\ k_added = FALSE
    /\ w_seen = "none"
    /\ w_attempt = 0

StartNamed(mode, name) == StartAdapter(mode, name) /\ RuntimeIdle /\ LsfIdle /\ BatchesIdle

Start(mode) == StartNamed(mode, <<>>)

Init == Start("calls")

InitKills == Start("kills")

\* ------------------------------------------------------- backend actions
\* A job moves on at the backend: it starts, finishes, fails, or its record goes.
BackendStep ==
    /\ \E h \in Handles : \E s \in Later(status[h]) \ {status[h]} :
        status' = [status EXCEPT ![h] = s]
    /\ lastOp' = Plain("backend", NoUpdate, FALSE)
    /\ ResetDrain
    /\ UNCHANGED <<adapterVars, localVars, registered, created, fixedVars, historyVars, threadVars>>

\* A job of the local sub-scheduler finishes.
LocalFinish ==
    /\ \E id \in localRunning :
        /\ localRunning' = localRunning \ {id}
        /\ localUpdated' = localUpdated \cup {id}
    /\ lastOp' = Plain("local", NoUpdate, FALSE)
    /\ ResetDrain
    /\ UNCHANGED <<adapterVars, backendVars, fixedVars, historyVars, threadVars>>

\* ------------------------------------------------------------- environment
EnvNames == {"FOO", "BAR"}
\* the values setEnv is called with, and the values a job_environment holds
EnvValues == {"baz"}
JobValues == {"bar"}

\* a dict from some of the names to a job's values
Environments == UNION {[K -> JobValues] : K \in SUBSET EnvNames}

\* the job_environment arguments of issueBatchJob (None and {} act alike);
\* only a run that observes the environment passes any
JobEnvironments == IF observe = "env" THEN Environments ELSE {EmptyDict}

\* environment = self.environment.copy(); environment.update(job_environment)
MergedEnvironment(job_environment) == [k \in DOMAIN environment \cup DOMAIN job_environment |-> IF k \in DOMAIN job_environment THEN job_environment[k] ELSE environment[k]]

\* what submit_job is given as the environment of the job
Submission(job_environment) == [NoMore EXCEPT !.submitted = TRUE, !.job_environment = job_environment, !.environment = MergedEnvironment(job_environment)]

\* mutant: the update is made on self.environment itself
EnvironmentAfterIssue_shared(job_environment) == MergedEnvironment(job_environment)

\* self.environment after issueBatchJob: the update was made on a copy
EnvironmentAfterIssue(job_environment) == environment

\* setEnv(name, value) of BatchSystemSupport: self.environment[name] = value
setEnv(name, value) ==
    /\ environment' = Put(environment, name, value)
    /\ lastOp' = Note("setEnv", NoUpdate, FALSE, {}, NoJob, NoSent, NoMore)
    /\ UNCHANGED <<adapterVars, localVars, backendVars, observe, pureVars, polls, historyVars, drainVars, threadVars>>

\* ---------------------------------------------------------- issueBatchJob
\* _get_or_create_job_definition when register_job_definition succeeds
get_or_create_job_definition ==
    IF job_definition = NoDefinition
    THEN /\ created < MaxTemplates
         /\ created' = created + 1
         /\ registered' = registered \cup {created + 1}
         /\ job_definition' = created + 1
    ELSE UNCHANGED <<job_definition, registered, created>>

\* handleLocalJob took the job: the local sub-scheduler issues it.
issueLocal(job) ==
    /\ job.local
    /\ nextJobID < MaxJobs
    /\ nextJobID' = nextJobID + 1
    /\ localRunning' = localRunning \cup {nextJobID}
    /\ lastOp' = Note("issueBatchJob", nextJobID, FALSE, {}, job, NoSent, NoMore)
    /\ UNCHANGED <<localUpdated, job_definition, bs_id_to_aws_id, aws_id_to_bs_id, killed_job_aws_ids, backendVars>>

\* mutant: the id is drawn before the resources are checked
issueRejected_late(job) ==
    /\ ~job.local
    /\ ~checkResourceRequest(job)
    /\ nextJobID < MaxJobs
    /\ nextJobID' = nextJobID + 1
    /\ lastOp' = Note("issueBatchJob", NoUpdate, TRUE, {}, job, NoSent, [NoMore EXCEPT !.cause = "rejected"])
    /\ UNCHANGED <<job_definition, bs_id_to_aws_id, aws_id_to_bs_id, killed_job_aws_ids, localVars, backendVars>>

\* checkResourceRequest raises: nothing else of issueBatchJob runs.
issueRejected(job) ==
    /\ ~job.local
    /\ ~checkResourceRequest(job)
    /\ lastOp' = Note("issueBatchJob", NoUpdate, TRUE, {}, job, NoSent, [NoMore EXCEPT !.cause = "rejected"])
    /\ UNCHANGED <<adapterVars, localVars, backendVars>>

\* register_job_definition raises (retries exhausted or an error not retried).
issueDefinitionFailed(job) ==
    /\ ~job.local
    /\ checkResourceRequest(job)
    /\ nextJobID < MaxJobs
    /\ job_definition = NoDefinition
    /\ nextJobID' = nextJobID + 1
    /\ \E cause \in Causes : lastOp' = Note("issueBatchJob", NoUpdate, TRUE, {}, job, NoSent, Failure("_get_or_create_job_definition", cause))
    /\ UNCHANGED <<localVars, job_definition, bs_id_to_aws_id, aws_id_to_bs_id, killed_job_aws_ids, backendVars>>

\* mutant: the id is tied to a handle although submit_job raised
issueSubmitFailed_stored(job, job_environment) ==
    /\ ~job.local
    /\ checkResourceRequest(job)
    /\ nextJobID < MaxJobs
    /\ nextJobID' = nextJobID + 1
    /\ get_or_create_job_definition
    /\ status' = Append(status, "RUNNABLE")
    /\ bs_id_to_aws_id' = Put(bs_id_to_aws_id, nextJobID, Len(status) + 1)
    /\ aws_id_to_bs_id' = Put(aws_id_to_bs_id, Len(status) + 1, nextJobID)
    /\ \E cause \in Causes : lastOp' = Note("issueBatchJob", NoUpdate, TRUE, {}, job, resourceRequirements(job), [Submission(job_environment) EXCEPT !.cause = cause, !.attempts = Attempts("submit_job", cause)])
    /\ UNCHANGED <<localVars, killed_job_aws_ids>>

\* submit_job raises: the id is used up, nothing is registered.
issueSubmitFailed(job, job_environment) ==
    /\ ~job.local
    /\ checkResourceRequest(job)
    /\ nextJobID < MaxJobs
    /\ nextJobID' = nextJobID + 1
    /\ get_or_create_job_definition
    /\ \E cause \in Causes : lastOp' = Note("issueBatchJob", NoUpdate, TRUE, {}, job, resourceRequirements(job), [Submission(job_environment) EXCEPT !.cause = cause, !.attempts = Attempts("submit_job", cause)])
    /\ UNCHANGED <<localVars, bs_id_to_aws_id, aws_id_to_bs_id, killed_job_aws_ids, status>>

\* submit_job returns a fresh handle, which is tied to the new bs_id.
issueSubmitted(job, job_environment) ==
    /\ ~job.local
    /\ checkResourceRequest(job)
    /\ nextJobID < MaxJobs
    /\ nextJobID' = nextJobID + 1
    /\ get_or_create_job_definition
    /\ LET bs_id == nextJobID
           aws_id == Len(status) + 1
       IN /\ status' = Append(status, "RUNNABLE")
          /\ bs_id_to_aws_id' = Put(bs_id_to_aws_id, bs_id, aws_id)
          /\ aws_id_to_bs_id' = Put(aws_id_to_bs_id, aws_id, bs_id)
          /\ lastOp' = Note("issueBatchJob", bs_id, FALSE, {}, job, resourceRequirements(job), Submission(job_environment))
    /\ UNCHANGED <<localVars, killed_job_aws_ids>>

issueBatchJob(job, job_environment) ==
    /\ \/ issueLocal(job)
       \/ issueRejected(job)
       \/ issueDefinitionFailed(job)
       \/ issueSubmitFailed(job, job_environment)
       \/ issueSubmitted(job, job_environment)
    /\ environment' = EnvironmentAfterIssue(job_environment)
    /\ ResetDrain
    /\ UNCHANGED <<observe, pureVars, polls, historyVars, threadVars>>

\* ----------------------------------------------------- getUpdatedBatchJob
\* mutant: only a successful job counts as done
IsTerminal_succeeded(s) == s = "SUCCEEDED"

\* job_detail.get('status') in ['SUCCEEDED', 'FAILED']
IsTerminal(s) == s \in {"SUCCEEDED", "FAILED"}

\* mutant: the killed-set is asked for the bs_id instead of the handle
Suppressed_bs_id(aws_id) == aws_id_to_bs_id[aws_id] \in killed_job_aws_ids

\* job_detail['jobId'] in self.killed_job_aws_ids
Suppressed(aws_id) == aws_id \in killed_job_aws_ids

\* mutant: the loop goes on after the job whose event it returns, and
\* acknowledges the finished jobs that follow
Finished(aws_id) == status[aws_id] \in {"SUCCEEDED", "FAILED"} /\ aws_id \in DOMAIN aws_id_to_bs_id
Reportable(aws_id) == aws_id \notin killed_job_aws_ids
Reconcile_through(resp, i, acked) ==
    LET finished == SelectSeq(SubSeq(resp, i, Len(resp)), Finished)
        events == SelectSeq(finished, Reportable)
    IN [acknowledged |-> acked \o [k \in 1 .. Len(finished) |-> <<finished[k], aws_id_to_bs_id[finished[k]]>>],
        event |-> IF events = <<>> THEN 0 ELSE events[1],
        raised |-> FALSE]

\* The loop over the JobDetails of one polling pass, from the i-th on: what it
\* acknowledged, the handle whose event it returns (0: none), whether the
\* lookup of an unregistered handle raised.
RECURSIVE Reconcile(_, _, _)
Reconcile(resp, i, acked) ==
    IF i > Len(resp) THEN [acknowledged |-> acked, event |-> 0, raised |-> FALSE]
    ELSE LET aws_id == resp[i] IN
         IF ~IsTerminal(status[aws_id]) THEN Reconcile(resp, i + 1, acked)
         ELSE IF aws_id \notin DOMAIN aws_id_to_bs_id THEN [acknowledged |-> acked, event |-> 0, raised |-> TRUE]
         ELSE LET more == Append(acked, <<aws_id, aws_id_to_bs_id[aws_id]>>) IN
              IF Suppressed(aws_id) THEN Reconcile(resp, i + 1, more)
              ELSE [acknowledged |-> more, event |-> aws_id, raised |-> FALSE]

\* mutant: a killed job's flag outlives its records
RECURSIVE DropAcknowledged_flagged(_, _)
DropAcknowledged_flagged(reg, acked) ==
    IF acked = <<>> THEN reg
    ELSE LET aws_id == Head(acked)[1]
             bs_id == Head(acked)[2]
         IN IF aws_id \notin DOMAIN reg.a2b THEN [reg EXCEPT !.raised = TRUE]
            ELSE IF bs_id \notin DOMAIN reg.b2a THEN [reg EXCEPT !.a2b = Del(reg.a2b, aws_id), !.raised = TRUE]
            ELSE DropAcknowledged_flagged([a2b |-> Del(reg.a2b, aws_id), b2a |-> Del(reg.b2a, bs_id), killed |-> reg.killed, raised |-> FALSE], Tail(acked))

\* mutant: the acknowledged records are kept
DropAcknowledged_keep(reg, acked) == reg

\* mutant: only the handle's direction of each pair is dropped
RECURSIVE DropAcknowledged_oneway(_, _)
DropAcknowledged_oneway(reg, acked) ==
    IF acked = <<>> THEN reg
    ELSE LET aws_id == Head(acked)[1]
         IN IF aws_id \notin DOMAIN reg.a2b THEN [reg EXCEPT !.raised = TRUE]
            ELSE DropAcknowledged_oneway([a2b |-> Del(reg.a2b, aws_id), b2a |-> reg.b2a, killed |-> reg.killed \ {aws_id}, raised |-> FALSE], Tail(acked))

\* The finally block: drop the records of the acknowledged jobs, one by one.
RECURSIVE DropAcknowledged(_, _)
DropAcknowledged(reg, acked) ==
    IF acked = <<>> THEN reg
    ELSE LET aws_id == Head(acked)[1]
             bs_id == Head(acked)[2]
         IN IF aws_id \notin DOMAIN reg.a2b THEN [reg EXCEPT !.raised = TRUE]
            ELSE IF bs_id \notin DOMAIN reg.b2a THEN [reg EXCEPT !.a2b = Del(reg.a2b, aws_id), !.raised = TRUE]
            ELSE DropAcknowledged([a2b |-> Del(reg.a2b, aws_id), b2a |-> Del(reg.b2a, bs_id), killed |-> reg.killed \ {aws_id}, raised |-> FALSE], Tail(acked))

Registry == [a2b |-> aws_id_to_bs_id, b2a |-> bs_id_to_aws_id, killed |-> killed_job_aws_ids, raised |-> FALSE]

\* registered, not-killed jobs that are terminal at the backend
Deliverable == {aws_id_to_bs_id[h] : h \in {x \in DOMAIN aws_id_to_bs_id : BackendTerminal(status[x]) /\ x \notin killed_job_aws_ids}}

Emit(id) == emitted' = [emitted EXCEPT ![id] = IF observe = "calls" /\ @ < 2 THEN @ + 1 ELSE @]

\* A poll of a draining run: remember what it returned.
NoteDrain(ret) ==
    IF observe # "calls" THEN ResetDrain
    ELSE IF drainResults = <<>>
    THEN drainStart' = Deliverable /\ drainResults' = <<ret>>
    ELSE /\ drainStart' = drainStart
         /\ drainResults' = IF Len(drainResults) <= Cardinality(drainStart) THEN Append(drainResults, ret) ELSE drainResults

\* while (elapsed < maxWait or not maxWait)
EntersLoop(maxWait, elapsed) == elapsed < maxWait \/ maxWait = 0

\* mutant: the pass is always followed by a sleep
SleepsAfterPass_always(maxWait) == TRUE

\* if maxWait: time.sleep(...) else: break
SleepsAfterPass(maxWait) == maxWait # 0

\* what a call that made one pass did: the pass, a describe unless the local
\* check had a result, a sleep if nothing was found and maxWait is not zero
Pass(maxWait, describes, found) == [NoMore EXCEPT !.maxWait = maxWait, !.passes = 1, !.describes = describes, !.sleeps = IF ~found /\ SleepsAfterPass(maxWait) THEN 1 ELSE 0]

\* the container reports a run looks at
Reports == IF observe = "details" THEN ContainerReports ELSE {NoContainer}

\* the container parts that matter for an answer: only the job the pass
\* returns has its container part read
ReportsOf(resp) == IF Reconcile(resp, 1, <<>>).event # 0 THEN Reports ELSE {NoContainer}

\* mutant: the backend is asked before the local result is returned
PollLocal_described(maxWait) ==
    /\ EntersLoop(maxWait, 0)
    /\ localUpdated # {}
    /\ \E id \in localUpdated :
        /\ localUpdated' = localUpdated \ {id}
        /\ Emit(id)
        /\ lastOp' = Note("getUpdatedBatchJob", id, FALSE, {}, NoJob, NoSent, Pass(maxWait, 1, TRUE))
    /\ ResetDrain
    /\ UNCHANGED <<adapterVars, localRunning, backendVars, fixedVars, everKilled, killReturned, atShutdown, threadVars>>

\* getUpdatedLocalJob(0) has a result: it is returned before any describe call.
PollLocal(maxWait) ==
    /\ EntersLoop(maxWait, 0)
    /\ localUpdated # {}
    /\ \E id \in localUpdated :
        /\ localUpdated' = localUpdated \ {id}
        /\ Emit(id)
        /\ lastOp' = Note("getUpdatedBatchJob", id, FALSE, {}, NoJob, NoSent, Pass(maxWait, 0, TRUE))
    /\ ResetDrain
    /\ UNCHANGED <<adapterVars, localRunning, backendVars, fixedVars, everKilled, killReturned, atShutdown, threadVars>>

\* describe_jobs raises: it is not retried, and nothing was acknowledged yet.
PollDescribeFailed(maxWait) ==
    /\ EntersLoop(maxWait, 0)
    /\ localUpdated = {}
    /\ DOMAIN aws_id_to_bs_id # {}
    /\ \E cause \in Causes : lastOp' = Note("getUpdatedBatchJob", NoUpdate, TRUE, {}, NoJob, NoSent, [Failure("describe_jobs", cause) EXCEPT !.maxWait = maxWait, !.passes = 1, !.describes = 1])
    /\ ResetDrain
    /\ UNCHANGED <<adapterVars, localVars, backendVars, fixedVars, historyVars, threadVars>>

\* The UpdatedBatchJobInfo composed for the job with handle aws_id, whose
\* JobDetail has the job's status and the container report.
UpdatedBatchJobInfo(aws_id, container) == [status |-> status[aws_id], container |-> container, exitStatus |-> get_exit_code(container), exitReason |-> STATE_TO_EXIT_REASON[status[aws_id]]]

\* One pass over the answer resp of the backend, whose JobDetails have the
\* container report: the loop, the finally block, and what the call returns.
PollAnswer(maxWait, resp, container, unfaithful) ==
    LET r == Reconcile(resp, 1, <<>>)
        d == DropAcknowledged(Registry, r.acknowledged)
        raised == r.raised \/ d.raised
        ret == IF r.event # 0 /\ ~raised THEN aws_id_to_bs_id[r.event] ELSE NoUpdate
        pass == [Pass(maxWait, 1, ret # NoUpdate \/ raised) EXCEPT !.unfaithful = unfaithful, !.cause = IF raised THEN "KeyError" ELSE "none", !.answer = resp]
        info == IF ret = NoUpdate THEN pass ELSE LET u == UpdatedBatchJobInfo(r.event, container) IN [pass EXCEPT !.status = u.status, !.container = u.container, !.exitStatus = u.exitStatus, !.exitReason = u.exitReason]
    IN /\ aws_id_to_bs_id' = d.a2b
       /\ bs_id_to_aws_id' = d.b2a
       /\ killed_job_aws_ids' = d.killed
       /\ lastOp' = Note("getUpdatedBatchJob", ret, raised, {}, NoJob, NoSent, info)
       /\ IF ret # NoUpdate THEN Emit(ret) ELSE UNCHANGED emitted
       /\ IF maxWait = 0 /\ ~raised THEN NoteDrain(ret) ELSE ResetDrain

\* One pass over the backend's answer, in the order the backend gives it.
PollRemote(maxWait) ==
    /\ EntersLoop(maxWait, 0)
    /\ localUpdated = {}
    /\ \E resp \in Orderings(Described(DOMAIN aws_id_to_bs_id)) : \E container \in ReportsOf(resp) :
        PollAnswer(maxWait, resp, container, FALSE)
    /\ UNCHANGED <<nextJobID, job_definition, localVars, backendVars, fixedVars, everKilled, killReturned, atShutdown, threadVars>>

\* the answers of up to MaxJobs JobDetails that hold a job twice or a job
\* whose handle is not registered
UnfaithfulAnswers ==
    {resp \in UNION {[1 .. n -> Described(Handles)] : n \in 1 .. MaxJobs} :
        \/ \E i \in DOMAIN resp : resp[i] \notin DOMAIN aws_id_to_bs_id
        \/ \E i, j \in DOMAIN resp : i < j /\ resp[i] = resp[j]}

\* One pass over such an answer.
PollUnfaithful(maxWait) ==
    /\ EntersLoop(maxWait, 0)
    /\ localUpdated = {}
    /\ DOMAIN aws_id_to_bs_id # {}
    /\ \E resp \in UnfaithfulAnswers : \E container \in ReportsOf(resp) :
        PollAnswer(maxWait, resp, container, TRUE)
    /\ UNCHANGED <<nextJobID, job_definition, localVars, backendVars, fixedVars, everKilled, killReturned, atShutdown, threadVars>>

\* The maxWait a caller passes: 0 (poll once) or a time. Only a run that
\* records the calls or the passes of a poll can tell the two apart after one
\* pass.
MaxWaits == IF observe \in {"calls", "details"} THEN {0, 1} ELSE {0}

\* A call that makes one pass of the loop: with maxWait = 0 the loop is left
\* after it, with maxWait > 0 the time is up after the sleep that follows it.
getUpdatedBatchJob(maxWait) == PollLocal(maxWait) \/ PollDescribeFailed(maxWait) \/ PollRemote(maxWait)

\* ----------------------------------------------------------- killBatchJobs
\* history: the ids whose handles _try_terminate has flagged
NoteKilled(aws_ids) == everKilled' = IF observe = "calls" THEN everKilled \cup {aws_id_to_bs_id[h] : h \in aws_ids \cap DOMAIN aws_id_to_bs_id} ELSE everKilled

\* mutant: no handle is flagged
MarkKilled_none(killed, aws_ids) == killed

\* mutant: every registered handle is flagged
MarkKilled_all(killed, aws_ids) == killed \cup aws_ids \cup DOMAIN aws_id_to_bs_id

\* _try_terminate flags the handle before it calls terminate_job
MarkKilled(killed, aws_ids) == killed \cup aws_ids

\* mutant: any reported status ends the wait
IsStopped_any(s) == s # "GONE"

\* _wait_until_stopped: job['status'] in ['SUCCEEDED', 'FAILED']
IsStopped(s) == s \in {"SUCCEEDED", "FAILED"}

\* _wait_until_stopped returns on a describe that shows status s (GONE: no record)
WaitReturns(s) == s = "GONE" \/ IsStopped(s)

\* The backend while _wait_until_stopped loops over the handles hs: each job
\* the loop does not return on at once moves on, its record kept, until the
\* loop returns.
Stopping(hs) == {fin \in [hs -> Statuses] : \A h \in hs : IF WaitReturns(status[h]) THEN fin[h] = status[h] ELSE fin[h] \in Later(status[h]) \ {"GONE"} /\ WaitReturns(fin[h])}

\* the lists a caller passes: up to two ids, in increasing order
KillLists == {<<>>} \cup {<<a>> : a \in JobIds} \cup {<<a, b>> : a, b \in JobIds}

\* the ids are ids the caller was given, or the one that names no job
Callable(job_ids) == \A i \in 1 .. Len(job_ids) : (job_ids[i] < nextJobID \/ job_ids[i] = UnknownId) /\ \A j \in 1 .. Len(job_ids) : i < j => job_ids[i] < job_ids[j]

IsRegistered(bs_id) == bs_id \in DOMAIN bs_id_to_aws_id

\* the handles of the ids of the list that are in the registry, in list order
Targets(job_ids) == LET t == SelectSeq(job_ids, IsRegistered) IN [i \in 1 .. Len(t) |-> bs_id_to_aws_id[t[i]]]

Prefix(seq, k) == {seq[i] : i \in 1 .. k}

\* killLocalJobs: the local sub-scheduler stops the ids it is running
killLocalJobs(job_ids) == localRunning' = localRunning \ Range(job_ids)

\* the errors terminate_job raises for a handle: for a job the backend
\* no longer has, the answer can be 'not found'
TerminateErrors(aws_id) == Causes \cup (IF observe = "errors" /\ status[aws_id] = "GONE" THEN {"notfound"} ELSE {})

\* mutant: each job is cancelled and waited for before the next is cancelled
KillCalls_each(targets, cancelled, waited) ==
    [i \in 1 .. (cancelled + waited) |-> IF i % 2 = 1 THEN <<"terminate_job", targets[(i + 1) \div 2]>> ELSE <<"describe_jobs", targets[i \div 2]>>]

\* The backend calls of a killBatchJobs call, in the order it makes them:
\* the first loop has called terminate_job for so many of the targets, the
\* second loop has begun the wait (a describe_jobs) for so many of them.
KillCalls(targets, cancelled, waited) ==
    [i \in 1 .. cancelled |-> <<"terminate_job", targets[i]>>] \o [i \in 1 .. waited |-> <<"describe_jobs", targets[i]>>]

\* a killBatchJobs call in the record
Killed(job_ids, more) == [more EXCEPT !.job_ids = Range(job_ids)]

\* terminate_job raises for the k-th handle (the flag of that handle is set).
killTerminateFailed(job_ids) ==
    /\ \E k \in 1 .. Len(Targets(job_ids)) :
        LET flagged == Prefix(Targets(job_ids), k) IN
        /\ killed_job_aws_ids' = MarkKilled(killed_job_aws_ids, flagged)
        /\ NoteKilled(flagged)
        /\ \E cause \in TerminateErrors(Targets(job_ids)[k]) :
            lastOp' = Note("killBatchJobs", NoUpdate, TRUE, {}, NoJob, NoSent, Killed(job_ids, [Failure("_try_terminate", cause) EXCEPT !.calls = KillCalls(Targets(job_ids), k, 0)]))
    /\ UNCHANGED <<status, killReturned>>

\* Every cancel went through; the describe of the k-th wait raises.
killWaitFailed(job_ids) ==
    /\ \E k \in 1 .. Len(Targets(job_ids)) : \E fin \in Stopping(Prefix(Targets(job_ids), k - 1)) :
        /\ status' = [h \in Handles |-> IF h \in DOMAIN fin THEN fin[h] ELSE status[h]]
        /\ \E cause \in Causes : lastOp' = Note("killBatchJobs", NoUpdate, TRUE, {}, NoJob, NoSent, Killed(job_ids, [Failure("_wait_until_stopped", cause) EXCEPT !.calls = KillCalls(Targets(job_ids), Len(Targets(job_ids)), k)]))
    /\ killed_job_aws_ids' = MarkKilled(killed_job_aws_ids, Range(Targets(job_ids)))
    /\ NoteKilled(Range(Targets(job_ids)))
    /\ UNCHANGED killReturned

\* Every cancel went through and every wait saw its job stopped or gone.
killConfirmed(job_ids) ==
    /\ \E fin \in Stopping(Range(Targets(job_ids))) :
        status' = [h \in Handles |-> IF h \in DOMAIN fin THEN fin[h] ELSE status[h]]
    /\ killed_job_aws_ids' = MarkKilled(killed_job_aws_ids, Range(Targets(job_ids)))
    /\ NoteKilled(Range(Targets(job_ids)))
    /\ killReturned' = IF observe = "kills" THEN killReturned \cup Range(job_ids) ELSE killReturned
    /\ lastOp' = Note("killBatchJobs", NoUpdate, FALSE, {}, NoJob, NoSent, Killed(job_ids, [NoMore EXCEPT !.calls = KillCalls(Targets(job_ids), Len(Targets(job_ids)), Len(Targets(job_ids)))]))

killBatchJobs(job_ids) ==
    /\ Callable(job_ids)
    /\ killLocalJobs(job_ids)
    /\ \/ killTerminateFailed(job_ids)
       \/ killWaitFailed(job_ids)
       \/ killConfirmed(job_ids)
    /\ ResetDrain
    /\ UNCHANGED <<nextJobID, job_definition, bs_id_to_aws_id, aws_id_to_bs_id, localUpdated, registered, created, fixedVars, emitted, atShutdown, threadVars>>

\* --------------------------------------------------- getRunningBatchJobIDs
\* the ids of the registered jobs the backend describes as RUNNING
RunningIds == {aws_id_to_bs_id[h] : h \in {x \in Described(DOMAIN aws_id_to_bs_id) : status[x] = "RUNNING"}}

\* A time in seconds is ms thousandths of a second plus epsilons times
\* sys.float_info.epsilon; none: the Python value None.
NoRuntime == [none |-> TRUE, ms |-> 0, epsilons |-> 0]

Seconds(ms) == [none |-> FALSE, ms |-> ms, epsilons |-> 0]

\* sys.float_info.epsilon, which is less than a thousandth of a second
Epsilon == [none |-> FALSE, ms |-> 0, epsilons |-> 1]

\* toil.lib.misc.slow_down: the time, or epsilon when the time is less
slow_down(ms) == IF ms >= 1 THEN Seconds(ms) ELSE Epsilon

\* mutant: a job that has stopped is timed against the clock as well
end_ms_now(detail, now) == now

\* job_detail['stoppedAt'] if the key is there, else unix_now_ms()
end_ms(detail, now) == IF "stoppedAt" \in detail.keys THEN detail.stoppedAt ELSE now

get_runtime(detail, now) ==
    IF "status" \notin detail.keys \/ detail.status \notin {"STARTING", "RUNNING", "SUCCEEDED", "FAILED"} THEN NoRuntime
    ELSE IF "startedAt" \notin detail.keys THEN NoRuntime
    ELSE slow_down(end_ms(detail, now) - detail.startedAt)

\* What describe_jobs can say of a job whose status at the backend is s: a
\* job that is not running yet is shown in one of the statuses before
\* RUNNING (RUNNABLE and STARTING are the two taken); a job that is starting
\* or has started may lack its 'startedAt'.
DetailsOf(s) ==
    IF s = "RUNNABLE"
    THEN {Detail({"status"}, "RUNNABLE", 0, 0)} \cup {Detail({"status"} \cup k, "STARTING", 1000, 0) : k \in SUBSET {"startedAt"}}
    ELSE IF s = "RUNNING"
    THEN {Detail({"status"} \cup k, s, 1000, 0) : k \in SUBSET {"startedAt"}}
    ELSE {Detail({"status", "stoppedAt"} \cup k, s, 1000, 2500) : k \in SUBSET {"startedAt"}}

\* if runtime: (None and 0 are false)
Truthy(r) == ~r.none /\ (r.ms # 0 \/ r.epsilons # 0)

\* mutant: a job is listed without a runtime
Listed_unmeasured(detail, now) == "status" \in detail.keys /\ detail.status = "RUNNING"

\* job_detail.get('status') == 'RUNNING' ... if runtime:
Listed(detail, now) == "status" \in detail.keys /\ detail.status = "RUNNING" /\ Truthy(get_runtime(detail, now))

\* bs_id_to_runtime after the loop over the JobDetails d, one per handle
bs_id_to_runtime(d, now) ==
    [id \in {aws_id_to_bs_id[h] : h \in {x \in DOMAIN d : Listed(d[x], now)}} |-> get_runtime(d[bs_id_to_aws_id[id]], now)]

\* The call with the JobDetails the backend gave in view.
getRunningBatchJobIDs_details ==
    \E now \in ClockReadings : \E d \in [Described(DOMAIN aws_id_to_bs_id) -> UNION {DetailsOf(q) : q \in Statuses \ {"GONE"}}] :
        /\ \A h \in DOMAIN d : d[h] \in DetailsOf(status[h])
        /\ lastOp' = Note("getRunningBatchJobIDs", NoUpdate, FALSE, DOMAIN bs_id_to_runtime(d, now), NoJob, NoSent, [NoMore EXCEPT !.details = d, !.snapshot = bs_id_to_runtime(d, now)])

getRunningBatchJobIDs ==
    /\ \/ observe # "running" /\ lastOp' = Call("getRunningBatchJobIDs", NoUpdate, FALSE, RunningIds, NoJob, NoSent)
       \/ observe = "running" /\ getRunningBatchJobIDs_details
       \/ /\ DOMAIN aws_id_to_bs_id # {}
          /\ \E cause \in Causes : lastOp' = Note("getRunningBatchJobIDs", NoUpdate, TRUE, {}, NoJob, NoSent, Failure("describe_jobs", cause))
    /\ ResetDrain
    /\ UNCHANGED <<adapterVars, localVars, backendVars, fixedVars, historyVars, threadVars>>

\* ---------------------------------------------------- getIssuedBatchJobIDs
\* mutant: only the registry is listed
getIssuedBatchJobIDs_remote == DOMAIN bs_id_to_aws_id

\* self.getIssuedLocalJobIDs() + list(self.bs_id_to_aws_id.keys())
getIssuedBatchJobIDs == localRunning \cup DOMAIN bs_id_to_aws_id

\* ---------------------------------------------------------------- shutdown
\* shutdownLocal: the local sub-scheduler stops what it is running
shutdownLocal == localRunning' = {}

\* terminate_job raises for the k-th registered handle: the loop is left,
\* _destroy_job_definition is not reached.
shutdownTerminateFailed ==
    /\ \E k \in 1 .. Len(Sorted(DOMAIN aws_id_to_bs_id)) :
        LET flagged == Prefix(Sorted(DOMAIN aws_id_to_bs_id), k) IN
        /\ killed_job_aws_ids' = MarkKilled(killed_job_aws_ids, flagged)
        /\ NoteKilled(flagged)
        /\ \E cause \in TerminateErrors(Sorted(DOMAIN aws_id_to_bs_id)[k]) :
            lastOp' = Note("shutdown", 0, TRUE, {}, NoJob, NoSent, Failure("_try_terminate", cause))
    /\ UNCHANGED <<job_definition, registered, atShutdown>>

\* _destroy_job_definition when deregister_job_definition succeeds
destroy_job_definition ==
    IF job_definition # NoDefinition
    THEN registered' = registered \ {job_definition} /\ job_definition' = NoDefinition
    ELSE UNCHANGED <<job_definition, registered>>

\* history: the ids that were in the registry when the loop of shutdown was done
NoteShutdown == atShutdown' = IF observe = "shutdown" THEN atShutdown \cup DOMAIN bs_id_to_aws_id ELSE atShutdown

\* Every cancel went through, and so did the deletion of the job definition.
shutdownDone ==
    /\ killed_job_aws_ids' = MarkKilled(killed_job_aws_ids, DOMAIN aws_id_to_bs_id)
    /\ NoteKilled(DOMAIN aws_id_to_bs_id)
    /\ NoteShutdown
    /\ destroy_job_definition
    /\ lastOp' = Note("shutdown", IF job_definition # NoDefinition THEN 1 ELSE 0, FALSE, {}, NoJob, NoSent, NoMore)

\* Every cancel went through; deregister_job_definition raises.
shutdownDestroyFailed ==
    /\ job_definition # NoDefinition
    /\ killed_job_aws_ids' = MarkKilled(killed_job_aws_ids, DOMAIN aws_id_to_bs_id)
    /\ NoteKilled(DOMAIN aws_id_to_bs_id)
    /\ NoteShutdown
    /\ \E cause \in Causes : lastOp' = Note("shutdown", 1, TRUE, {}, NoJob, NoSent, Failure("_destroy_job_definition", cause))
    /\ UNCHANGED <<job_definition, registered>>

shutdown ==
    /\ shutdownLocal
    /\ \/ shutdownTerminateFailed
       \/ shutdownDone
       \/ shutdownDestroyFailed
    /\ ResetDrain
    /\ UNCHANGED <<nextJobID, bs_id_to_aws_id, aws_id_to_bs_id, localUpdated, status, created, fixedVars, emitted, killReturned, threadVars>>

Next ==
    \/ \E job \in JobDescriptions : \E job_environment \in JobEnvironments : issueBatchJob(job, job_environment)
    \/ \E maxWait \in MaxWaits : getUpdatedBatchJob(maxWait)
    \/ \E job_ids \in KillLists : killBatchJobs(job_ids)
    \/ getRunningBatchJobIDs
    \/ shutdown
    \/ BackendStep
    \/ LocalFinish

Spec == Init /\ [][Next]_vars

SpecKills == InitKills /\ [][Next]_vars

InitRunning == Start("running")

NextRunning ==
    \/ \E job \in JobDescriptions : \E job_environment \in JobEnvironments : issueBatchJob(job, job_environment)
    \/ getUpdatedBatchJob(0)
    \/ \E job_ids \in KillLists : killBatchJobs(job_ids)
    \/ getRunningBatchJobIDs
    \/ BackendStep
    \/ LocalFinish

SpecRunning == InitRunning /\ [][NextRunning]_vars

\* SpecKills for an adapter that is not shut down.
SpecKillsOpen == InitKills /\ [][NextRunning]_vars

InitDetails == Start("details")

SpecDetails == InitDetails /\ [][Next]_vars

\* The caller keeps polling and the backend keeps answering: polls whose
\* describe call succeeds are justly scheduled.
SpecLost == InitDetails /\ [][Next]_vars /\ WF_vars(\E maxWait \in {0, 1} : PollLocal(maxWait) \/ PollRemote(maxWait))

\* A backend whose answer to describe_jobs can hold a job twice, or a job
\* whose handle is not in the registry.
NextDup ==
    \/ Next
    \/ \E maxWait \in {0, 1} : PollUnfaithful(maxWait)

SpecDup == InitDetails /\ [][NextDup]_vars

InitErrors == Start("errors")

SpecErrors == InitErrors /\ [][Next]_vars

InitKilled == Start("killed")

SpecKilled == InitKilled /\ [][Next]_vars

InitShutdown == Start("shutdown")

SpecShutdown == InitShutdown /\ [][Next]_vars

InitOrder == Start("order")

SpecOrder == InitOrder /\ [][Next]_vars

InitReconcile == Start("reconcile")

SpecReconcile == InitReconcile /\ [][Next]_vars

InitEnv == Start("env")

\* The caller also sets environment variables.
NextEnv ==
    \/ Next
    \/ \E name \in EnvNames : \E value \in EnvValues : setEnv(name, value)

SpecEnv == InitEnv /\ [][NextEnv]_vars

\* ------------------------------------------- threads inside issueBatchJob
\* Lines 152-163: the job is not local, the resources fit, the id is drawn.
c_begin(t) ==
    /\ pc[t] = "idle"
    /\ nextJobID < MaxJobs
    /\ nextJobID' = nextJobID + 1
    /\ t_bs_id' = [t_bs_id EXCEPT ![t] = nextJobID]
    /\ pc' = [pc EXCEPT ![t] = "test"]
    /\ UNCHANGED <<job_definition, bs_id_to_aws_id, aws_id_to_bs_id, killed_job_aws_ids, backendVars, t_arn, t_aws_id, callerVars, raceVars>>

\* Line 413: if self.job_definition is None
c_test(t) ==
    /\ pc[t] = "test"
    /\ pc' = [pc EXCEPT ![t] = IF job_definition = NoDefinition THEN "register" ELSE "return"]
    /\ UNCHANGED <<adapterVars, backendVars, t_bs_id, t_arn, t_aws_id, callerVars, raceVars>>

\* Line 442: response = self.client.register_job_definition(...)
c_register(t) ==
    /\ pc[t] = "register"
    /\ created < MaxTemplates
    /\ created' = created + 1
    /\ registered' = registered \cup {created + 1}
    /\ t_arn' = [t_arn EXCEPT ![t] = created + 1]
    /\ pc' = [pc EXCEPT ![t] = "store"]
    /\ UNCHANGED <<adapterVars, status, t_bs_id, t_aws_id, callerVars, raceVars>>

\* Line 443: self.job_definition = response['jobDefinitionArn']
c_store(t) ==
    /\ pc[t] = "store"
    /\ job_definition' = t_arn[t]
    /\ pc' = [pc EXCEPT ![t] = "return"]
    /\ UNCHANGED <<nextJobID, bs_id_to_aws_id, aws_id_to_bs_id, killed_job_aws_ids, backendVars, t_bs_id, t_arn, t_aws_id, callerVars, raceVars>>

\* Line 445: return self.job_definition
c_return(t) ==
    /\ pc[t] = "return"
    /\ t_arn' = [t_arn EXCEPT ![t] = job_definition]
    /\ pc' = [pc EXCEPT ![t] = "submit"]
    /\ UNCHANGED <<adapterVars, backendVars, t_bs_id, t_aws_id, callerVars, raceVars>>

\* Lines 211-212: response = self.client.submit_job(**job_spec)
c_submit(t) ==
    /\ pc[t] = "submit"
    /\ status' = Append(status, "RUNNABLE")
    /\ t_aws_id' = [t_aws_id EXCEPT ![t] = Len(status) + 1]
    /\ pc' = [pc EXCEPT ![t] = "tie_bs"]
    /\ UNCHANGED <<adapterVars, registered, created, t_bs_id, t_arn, callerVars, raceVars>>

\* Line 215: self.bs_id_to_aws_id[bs_id] = aws_id
c_tie_bs(t) ==
    /\ pc[t] = "tie_bs"
    /\ bs_id_to_aws_id' = Put(bs_id_to_aws_id, t_bs_id[t], t_aws_id[t])
    /\ pc' = [pc EXCEPT ![t] = "tie_aws"]
    /\ UNCHANGED <<nextJobID, job_definition, aws_id_to_bs_id, killed_job_aws_ids, backendVars, t_bs_id, t_arn, t_aws_id, callerVars, raceVars>>

\* Line 216: self.aws_id_to_bs_id[aws_id] = bs_id; the call returns bs_id
c_tie_aws(t) ==
    /\ pc[t] = "tie_aws"
    /\ aws_id_to_bs_id' = Put(aws_id_to_bs_id, t_aws_id[t], t_bs_id[t])
    /\ pc' = [pc EXCEPT ![t] = "idle"]
    /\ UNCHANGED <<nextJobID, job_definition, bs_id_to_aws_id, killed_job_aws_ids, backendVars, t_bs_id, t_arn, t_aws_id, callerVars, raceVars>>

\* A job moves on at the backend while the threads run.
c_backend ==
    /\ \E h \in Handles : \E s \in Later(status[h]) \ {status[h]} :
        status' = [status EXCEPT ![h] = s]
    /\ UNCHANGED <<adapterVars, registered, created, threadVars, callerVars>>

NextC ==
    \/ \E t \in Threads : c_begin(t)
    \/ \E t \in Threads : c_test(t)
    \/ \E t \in Threads : c_register(t)
    \/ \E t \in Threads : c_store(t)
    \/ \E t \in Threads : c_return(t)
    \/ \E t \in Threads : c_submit(t)
    \/ \E t \in Threads : c_tie_bs(t)
    \/ \E t \in Threads : c_tie_aws(t)
    \/ c_backend

SpecC == Init /\ [][NextC]_vars

\* --------------------------- threads inside issue, poll and kill together
\* One thread issues jobs (the statements of issueBatchJob as above), one
\* polls and one kills; another thread can run between any two steps. No
\* statement of the class takes a lock.

\* Lines 292-301: the local check has no result; describe_jobs answers for
\* the registered handles. The loop skips the JobDetails whose status is
\* not SUCCEEDED or FAILED, so p_jobs keeps the others, in the order given.
\* (A pass over an answer without such a job changes nothing.)
p_describe ==
    /\ p_pc = "idle"
    /\ \E resp \in Orderings({h \in Described(DOMAIN aws_id_to_bs_id) : IsTerminal(status[h])}) :
        /\ resp # <<>>
        /\ p_jobs' = resp
    /\ acknowledged' = <<>>
    /\ p_result' = NoUpdate
    /\ p_pc' = "scan"
    /\ UNCHANGED <<adapterVars, backendVars, issuerVars, killerVars, callerVars>>

\* Lines 302-313 for the next JobDetail: look the bs_id up, acknowledge the
\* job, and skip it if its handle is in the killed-set.
p_scan ==
    /\ p_pc = "scan"
    /\ IF p_jobs = <<>> THEN p_pc' = "finally" /\ UNCHANGED <<p_jobs, acknowledged>>
       ELSE LET aws_id == Head(p_jobs) IN
            IF aws_id \notin DOMAIN aws_id_to_bs_id THEN p_pc' = "finally" /\ UNCHANGED <<p_jobs, acknowledged>>
            ELSE /\ acknowledged' = Append(acknowledged, <<aws_id, aws_id_to_bs_id[aws_id]>>)
                 /\ IF Suppressed(aws_id) THEN p_pc' = "scan" /\ p_jobs' = Tail(p_jobs)
                    ELSE p_pc' = "compose" /\ UNCHANGED p_jobs
    /\ UNCHANGED <<adapterVars, backendVars, issuerVars, killerVars, callerVars, p_result>>

\* Lines 318-331: the event of the job is composed and returned; the finally
\* block runs before the caller has it.
p_compose ==
    /\ p_pc = "compose"
    /\ p_result' = acknowledged[Len(acknowledged)][2]
    /\ p_pc' = "finally"
    /\ UNCHANGED <<adapterVars, backendVars, issuerVars, killerVars, callerVars, p_jobs, acknowledged>>

\* Line 336: del self.aws_id_to_bs_id[aws_id]
p_del_aws ==
    /\ p_pc = "finally"
    /\ acknowledged # <<>>
    /\ Head(acknowledged)[1] \in DOMAIN aws_id_to_bs_id
    /\ aws_id_to_bs_id' = Del(aws_id_to_bs_id, Head(acknowledged)[1])
    /\ p_pc' = "del_bs"
    /\ UNCHANGED <<nextJobID, job_definition, bs_id_to_aws_id, killed_job_aws_ids, backendVars, issuerVars, killerVars, callerVars, p_jobs, acknowledged, p_result>>

\* Lines 337-340: del self.bs_id_to_aws_id[bs_id], and the handle leaves the
\* killed-set if it is in it.
p_del_bs ==
    /\ p_pc = "del_bs"
    /\ bs_id_to_aws_id' = Del(bs_id_to_aws_id, Head(acknowledged)[2])
    /\ killed_job_aws_ids' = killed_job_aws_ids \ {Head(acknowledged)[1]}
    /\ acknowledged' = Tail(acknowledged)
    /\ p_pc' = "finally"
    /\ UNCHANGED <<nextJobID, job_definition, aws_id_to_bs_id, backendVars, issuerVars, killerVars, callerVars, p_jobs, p_result>>

\* The finally block is done: the call returns p_result (line 331 or 349).
p_return ==
    /\ p_pc = "finally"
    /\ acknowledged = <<>>
    /\ p_pc' = "idle"
    /\ p_jobs' = <<>>
    /\ UNCHANGED <<adapterVars, backendVars, issuerVars, killerVars, callerVars, acknowledged, p_result>>

\* The killing thread's call is over: its locals are gone.
k_leave ==
    /\ k_pc' = "idle"
    /\ k_op' = "none"
    /\ k_aws_id' = 0
    /\ k_i' = 0
    /\ k_attempt' = 0
    /\ k_added' = FALSE
    /\ w_seen' = "none"
    /\ w_attempt' = 0

\* mutant: the cancel is sent before the handle is added
try_terminate_cancel_first == <<"terminate_job", "add">>

\* the statements of _try_terminate (lines 375 and 377), in order
try_terminate == <<"add", "terminate_job">>

\* The calls of _try_terminate: killBatchJobs (line 512) for an id of the
\* registry, shutdown (line 358) for a handle of the registry.
k_call(op, bs_id) ==
    /\ k_pc = "idle"
    /\ bs_id \in DOMAIN bs_id_to_aws_id
    /\ k_op' = op
    /\ k_aws_id' = bs_id_to_aws_id[bs_id]
    /\ k_i' = 1
    /\ k_attempt' = 1
    /\ k_added' = FALSE
    /\ UNCHANGED <<w_seen, w_attempt>>
    /\ k_pc' = "try_terminate"
    /\ UNCHANGED <<adapterVars, backendVars, issuerVars, pollerVars, callerVars>>

\* Line 375: self.killed_job_aws_ids.add(aws_id)
k_add ==
    /\ k_pc = "try_terminate"
    /\ k_i <= Len(try_terminate)
    /\ try_terminate[k_i] = "add"
    /\ killed_job_aws_ids' = MarkKilled(killed_job_aws_ids, {k_aws_id})
    /\ k_added' = TRUE
    /\ k_i' = k_i + 1
    /\ UNCHANGED <<nextJobID, job_definition, bs_id_to_aws_id, aws_id_to_bs_id, backendVars, issuerVars, pollerVars, callerVars, k_pc, k_op, k_aws_id, k_attempt, w_seen, w_attempt>>

\* Line 377: self.client.terminate_job(...) goes through, or raises the
\* retryable error and @retry calls _try_terminate again, or raises for good.
k_terminate_job ==
    /\ k_pc = "try_terminate"
    /\ k_i <= Len(try_terminate)
    /\ try_terminate[k_i] = "terminate_job"
    /\ \/ k_i' = k_i + 1 /\ UNCHANGED <<k_pc, k_op, k_aws_id, k_attempt, k_added, w_seen, w_attempt>>
       \/ /\ k_attempt < Attempts("_try_terminate", "transient")
          /\ k_attempt' = k_attempt + 1
          /\ k_i' = 1
          /\ k_added' = FALSE
          /\ UNCHANGED <<k_pc, k_op, k_aws_id, w_seen, w_attempt>>
       \/ k_leave
    /\ UNCHANGED <<adapterVars, backendVars, issuerVars, pollerVars, callerVars>>

\* _try_terminate returns: killBatchJobs goes on to wait for the job
\* (line 520), shutdown is done with the handle.
k_terminated ==
    /\ k_pc = "try_terminate"
    /\ k_i > Len(try_terminate)
    /\ IF k_op = "killBatchJobs" THEN k_pc' = "wait" /\ UNCHANGED <<k_op, k_aws_id, k_i, k_attempt, k_added, w_seen, w_attempt>> ELSE k_leave
    /\ UNCHANGED <<adapterVars, backendVars, issuerVars, pollerVars, callerVars>>

\* Lines 392-400: _wait_until_stopped sees the job stopped or gone, and
\* killBatchJobs returns.
k_wait ==
    /\ k_pc = "wait"
    /\ WaitReturns(status[k_aws_id])
    /\ k_leave
    /\ UNCHANGED <<adapterVars, backendVars, issuerVars, pollerVars, callerVars>>

\* the thread that issues
Issuer == 1

NextRace ==
    \/ c_begin(Issuer)
    \/ c_test(Issuer)
    \/ c_register(Issuer)
    \/ c_store(Issuer)
    \/ c_return(Issuer)
    \/ c_submit(Issuer)
    \/ c_tie_bs(Issuer)
    \/ c_tie_aws(Issuer)
    \/ c_backend
    \/ p_describe
    \/ p_scan
    \/ p_compose
    \/ p_del_aws
    \/ p_del_bs
    \/ p_return
    \/ \E op \in {"killBatchJobs", "shutdown"} : \E bs_id \in 0 .. (MaxJobs - 1) : k_call(op, bs_id)
    \/ k_add
    \/ k_terminate_job
    \/ k_terminated
    \/ k_wait

InitRace == Start("race")

SpecRace == InitRace /\ [][NextRace]_vars

\* The issuing and the killing thread alone: no poll takes a handle out of
\* the killed-set again.
NextCancel ==
    \/ c_begin(Issuer)
    \/ c_test(Issuer)
    \/ c_register(Issuer)
    \/ c_store(Issuer)
    \/ c_return(Issuer)
    \/ c_submit(Issuer)
    \/ c_tie_bs(Issuer)
    \/ c_tie_aws(Issuer)
    \/ c_backend
    \/ \E op \in {"killBatchJobs", "shutdown"} : \E bs_id \in 0 .. (MaxJobs - 1) : k_call(op, bs_id)
    \/ k_add
    \/ k_terminate_job
    \/ k_terminated
    \/ k_wait

SpecCancel == InitRace /\ [][NextCancel]_vars

\* ------------------------------------- two threads inside getUpdatedBatchJob
\* One thread issues jobs, two poll; another thread can run between any two
\* steps. No statement of the class takes a lock; each dict operation is one
\* step.
pollFrame == UNCHANGED <<nextJobID, job_definition, backendVars, observe, environment, pureVars, localVars, lastOp, historyVars, drainVars, threadVars>>

\* Lines 292-301 and 472-480: the local check has no result; the handles
\* of the registry are listed and describe_jobs answers for them. The loop
\* skips the JobDetails whose status is not SUCCEEDED or FAILED, so jobs
\* keeps the others, in the order given.
q_describe(t) ==
    /\ polls[t].pc = "idle"
    /\ \E resp \in Orderings({h \in Described(DOMAIN aws_id_to_bs_id) : IsTerminal(status[h])}) :
        /\ resp # <<>>
        /\ polls' = [polls EXCEPT ![t] = [@ EXCEPT !.pc = "scan", !.jobs = resp]]
    /\ UNCHANGED <<bs_id_to_aws_id, aws_id_to_bs_id, killed_job_aws_ids>>
    /\ pollFrame

\* Lines 302-313 for the next JobDetail: look the bs_id up (KeyError if the
\* handle has left the registry), acknowledge the job, and skip it if its
\* handle is in the killed-set.
q_scan(t) ==
    /\ polls[t].pc = "scan"
    /\ IF polls[t].jobs = <<>> THEN polls' = [polls EXCEPT ![t].pc = "finally"]
       ELSE LET aws_id == Head(polls[t].jobs) IN
            IF aws_id \notin DOMAIN aws_id_to_bs_id THEN polls' = [polls EXCEPT ![t] = [@ EXCEPT !.pc = "finally", !.raised = TRUE]]
            ELSE LET acked == Append(polls[t].acknowledged, <<aws_id, aws_id_to_bs_id[aws_id]>>) IN
                 IF Suppressed(aws_id) THEN polls' = [polls EXCEPT ![t] = [@ EXCEPT !.acknowledged = acked, !.jobs = Tail(@)]]
                 ELSE polls' = [polls EXCEPT ![t] = [@ EXCEPT !.acknowledged = acked, !.pc = "compose"]]
    /\ UNCHANGED <<bs_id_to_aws_id, aws_id_to_bs_id, killed_job_aws_ids>>
    /\ pollFrame

\* Lines 318-331: the event of the job is composed and the return begins;
\* the finally block runs before the caller has the event.
q_compose(t) ==
    /\ polls[t].pc = "compose"
    /\ polls' = [polls EXCEPT ![t] = [@ EXCEPT !.pc = "finally", !.result = polls[t].acknowledged[Len(polls[t].acknowledged)][2]]]
    /\ UNCHANGED <<bs_id_to_aws_id, aws_id_to_bs_id, killed_job_aws_ids>>
    /\ pollFrame

\* mutant: the KeyError ends the finally block but the return under way
\* stands
q_del_aws_returns(t) ==
    /\ polls[t].pc = "finally"
    /\ polls[t].acknowledged # <<>>
    /\ IF Head(polls[t].acknowledged)[1] \in DOMAIN aws_id_to_bs_id
       THEN /\ aws_id_to_bs_id' = Del(aws_id_to_bs_id, Head(polls[t].acknowledged)[1])
            /\ polls' = [polls EXCEPT ![t].pc = "del_bs"]
       ELSE /\ polls' = [polls EXCEPT ![t].pc = "done"]
            /\ UNCHANGED aws_id_to_bs_id
    /\ UNCHANGED <<bs_id_to_aws_id, killed_job_aws_ids>>
    /\ pollFrame

\* Line 336: del self.aws_id_to_bs_id[aws_id]. A KeyError leaves the finally
\* block and the call, in place of the return that was under way or of the
\* error that was.
q_del_aws(t) ==
    /\ polls[t].pc = "finally"
    /\ polls[t].acknowledged # <<>>
    /\ IF Head(polls[t].acknowledged)[1] \in DOMAIN aws_id_to_bs_id
       THEN /\ aws_id_to_bs_id' = Del(aws_id_to_bs_id, Head(polls[t].acknowledged)[1])
            /\ polls' = [polls EXCEPT ![t].pc = "del_bs"]
       ELSE /\ polls' = [polls EXCEPT ![t] = [@ EXCEPT !.pc = "done", !.raised = TRUE, !.result = NoUpdate]]
            /\ UNCHANGED aws_id_to_bs_id
    /\ UNCHANGED <<bs_id_to_aws_id, killed_job_aws_ids>>
    /\ pollFrame

\* Lines 337-340: del self.bs_id_to_aws_id[bs_id] (KeyError as above), and
\* the handle leaves the killed-set if it is in it.
q_del_bs(t) ==
    /\ polls[t].pc = "del_bs"
    /\ IF Head(polls[t].acknowledged)[2] \in DOMAIN bs_id_to_aws_id
       THEN /\ bs_id_to_aws_id' = Del(bs_id_to_aws_id, Head(polls[t].acknowledged)[2])
            /\ killed_job_aws_ids' = killed_job_aws_ids \ {Head(polls[t].acknowledged)[1]}
            /\ polls' = [polls EXCEPT ![t] = [@ EXCEPT !.pc = "finally", !.acknowledged = Tail(@)]]
       ELSE /\ polls' = [polls EXCEPT ![t] = [@ EXCEPT !.pc = "done", !.raised = TRUE, !.result = NoUpdate]]
            /\ UNCHANGED <<bs_id_to_aws_id, killed_job_aws_ids>>
    /\ UNCHANGED aws_id_to_bs_id
    /\ pollFrame

\* The finally block is done: the call returns its event (line 331) or None
\* (line 349), or the error of line 305 goes on to the caller.
q_return(t) ==
    /\ polls[t].pc = "finally"
    /\ polls[t].acknowledged = <<>>
    /\ polls' = [polls EXCEPT ![t] = [@ EXCEPT !.pc = "done", !.result = IF polls[t].raised THEN NoUpdate ELSE @]]
    /\ UNCHANGED <<bs_id_to_aws_id, aws_id_to_bs_id, killed_job_aws_ids>>
    /\ pollFrame

\* The caller has the outcome; the thread's locals are gone.
q_leave(t) ==
    /\ polls[t].pc = "done"
    /\ polls' = [polls EXCEPT ![t] = [NoPoll EXCEPT !.events = IF polls[t].result # NoUpdate THEN Append(polls[t].events, polls[t].result) ELSE polls[t].events]]
    /\ UNCHANGED <<bs_id_to_aws_id, aws_id_to_bs_id, killed_job_aws_ids>>
    /\ pollFrame

NextPolls ==
    \/ c_begin(Issuer)
    \/ c_test(Issuer)
    \/ c_register(Issuer)
    \/ c_store(Issuer)
    \/ c_return(Issuer)
    \/ c_submit(Issuer)
    \/ c_tie_bs(Issuer)
    \/ c_tie_aws(Issuer)
    \/ c_backend
    \/ \E t \in PollThreads : q_describe(t)
    \/ \E t \in PollThreads : q_scan(t)
    \/ \E t \in PollThreads : q_compose(t)
    \/ \E t \in PollThreads : q_del_aws(t)
    \/ \E t \in PollThreads : q_del_bs(t)
    \/ \E t \in PollThreads : q_return(t)
    \/ \E t \in PollThreads : q_leave(t)

InitPolls == Start("polls")

SpecPolls == InitPolls /\ [][NextPolls]_vars

\* --------------------------------------------- the loop of _wait_until_stopped
\* mutant: a job that is seen running ends the wait as well
WaitLoopReturns_running(s) == s \in {"GONE", "SUCCEEDED", "FAILED", "RUNNING"}

\* lines 394-400: no job in the response, or its status is SUCCEEDED or FAILED
WaitLoopReturns(s) == WaitReturns(s)

\* Line 392: describe_jobs answers with what the backend has of the job.
w_describe ==
    /\ k_pc = "wait"
    /\ w_seen' = status[k_aws_id]
    /\ k_pc' = "described"
    /\ UNCHANGED <<adapterVars, backendVars, issuerVars, pollerVars, callerVars, k_op, k_aws_id, k_i, k_attempt, k_added, w_attempt>>

\* Line 392: describe_jobs raises. A retryable error makes @retry call the
\* function again until its attempts are used up; any other error, and the
\* last retryable one, leave killBatchJobs.
w_describe_failed ==
    /\ k_pc = "wait"
    /\ \/ /\ w_attempt + 1 < Attempts("_wait_until_stopped", "transient")
          /\ w_attempt' = w_attempt + 1
          /\ UNCHANGED <<k_pc, k_op, k_aws_id, k_i, k_attempt, k_added, w_seen>>
       \/ k_leave
    /\ UNCHANGED <<adapterVars, backendVars, issuerVars, pollerVars, callerVars>>

\* Lines 394-400: the job is gone or has stopped: return.
w_return ==
    /\ k_pc = "described"
    /\ WaitLoopReturns(w_seen)
    /\ k_leave
    /\ UNCHANGED <<adapterVars, backendVars, issuerVars, pollerVars, callerVars>>

\* Lines 401-403: the job is still going: time.sleep(2), and the loop goes on.
w_sleep ==
    /\ k_pc = "described"
    /\ ~WaitLoopReturns(w_seen)
    /\ k_pc' = "wait"
    /\ UNCHANGED <<adapterVars, backendVars, issuerVars, pollerVars, callerVars, k_op, k_aws_id, k_i, k_attempt, k_added, w_seen, w_attempt>>

\* the steps of the thread that is in _wait_until_stopped
WaitLoop == w_describe \/ w_describe_failed \/ w_return \/ w_sleep

NextWait ==
    \/ c_begin(Issuer)
    \/ c_test(Issuer)
    \/ c_register(Issuer)
    \/ c_store(Issuer)
    \/ c_return(Issuer)
    \/ c_submit(Issuer)
    \/ c_tie_bs(Issuer)
    \/ c_tie_aws(Issuer)
    \/ c_backend
    \/ \E bs_id \in 0 .. (MaxJobs - 1) : k_call("killBatchJobs", bs_id)
    \/ k_add
    \/ k_terminate_job
    \/ k_terminated
    \/ w_describe
    \/ w_describe_failed
    \/ w_return
    \/ w_sleep

InitWait == Start("wait")

\* The thread in _wait_until_stopped is scheduled again and again.
SpecWait == InitWait /\ [][NextWait]_vars /\ WF_vars(WaitLoop)

\* ------------------------------------------- a backend that repeats a handle
\* submit_job answers with the jobId of a job that is still in the registry;
\* lines 215-216 store the pair as they store any other.
issueRepeated(job, job_environment) ==
    /\ ~job.local
    /\ checkResourceRequest(job)
    /\ nextJobID < MaxJobs
    /\ nextJobID' = nextJobID + 1
    /\ get_or_create_job_definition
    /\ \E aws_id \in DOMAIN aws_id_to_bs_id :
        LET bs_id == nextJobID
        IN /\ bs_id_to_aws_id' = Put(bs_id_to_aws_id, bs_id, aws_id)
           /\ aws_id_to_bs_id' = Put(aws_id_to_bs_id, aws_id, bs_id)
           /\ lastOp' = Note("issueBatchJob", bs_id, FALSE, {}, job, resourceRequirements(job), Submission(job_environment))
    /\ environment' = EnvironmentAfterIssue(job_environment)
    /\ ResetDrain
    /\ UNCHANGED <<localVars, killed_job_aws_ids, status, observe, pureVars, polls, historyVars, threadVars>>

NextRepeated ==
    \/ Next
    \/ \E job \in JobDescriptions : \E job_environment \in JobEnvironments : issueRepeated(job, job_environment)

SpecRepeated == Init /\ [][NextRepeated]_vars

\* ----------------------------------------------------------- _ensafen_name
\* A string is the sequence of its characters.
Alphabet == {"a", "1", " ", "-", "_", "#"}

\* c.isalnum(), on the characters that occur
isalnum(c) == c \in {"a", "b", "j", "m", "o", "y", "1"}

my_job_1 == <<"m", "y", " ", "j", "o", "b", " ", "#", "1", "!", "!">>

Fill(c, n) == [i \in 1 .. n |-> c]

\* every name of up to MaxNameLen characters, and names of NAME_LIMIT - 1 to
\* NAME_LIMIT + 1 equal characters behind at most one other character
Names ==
    UNION {[1 .. n -> Alphabet] : n \in 0 .. MaxNameLen}
    \cup {head \o Fill(c, n) : head \in {<<>>} \cup {<<x>> : x \in Alphabet}, c \in {"a", "-"}, n \in (NAME_LIMIT - 1) .. (NAME_LIMIT + 1)}
    \cup {my_job_1}

\* input_name.replace(" ", "-")
Replaced(name) == [i \in 1 .. Len(name) |-> IF name[i] = " " THEN "-" ELSE name[i]]

\* mutant: every character is kept
IsKept_all(c) == TRUE

\* c.isalnum() or c == '-' or c == '_'
IsKept(c) == isalnum(c) \/ c = "-" \/ c = "_"

\* if len(kept_chars) == 0 or not kept_chars[0].isalnum(): ['j'] + kept_chars
Prefixed(kept_chars) == IF Len(kept_chars) = 0 \/ ~isalnum(kept_chars[1]) THEN <<"j">> \o kept_chars ELSE kept_chars

\* kept_chars[:128]
Truncated(kept_chars) == SubSeq(kept_chars, 1, IF Len(kept_chars) < NAME_LIMIT THEN Len(kept_chars) ELSE NAME_LIMIT)

\* mutant: the list is cut to the limit before the 'j' is put in front
ensafen_name_cut_first(name) == Prefixed(Truncated(SelectSeq(Replaced(name), IsKept)))

ensafen_name(name) == Truncated(Prefixed(SelectSeq(Replaced(name), IsKept)))

InitNames == \E name \in Names : StartNamed("names", name)

\* _ensafen_name(input_name)
ensafen ==
    /\ safe_name = <<>>
    /\ safe_name' = ensafen_name(input_name)
    /\ UNCHANGED <<adapterVars, localVars, backendVars, observe, environment, polls, input_name, safe_twice, runtimeVars, lsfVars, batchVars, lastOp, historyVars, drainVars, threadVars>>

\* _ensafen_name applied to its own result
ensafen_again ==
    /\ safe_name # <<>>
    /\ safe_twice = <<>>
    /\ safe_twice' = ensafen_name(safe_name)
    /\ UNCHANGED <<adapterVars, localVars, backendVars, observe, environment, polls, input_name, safe_name, runtimeVars, lsfVars, batchVars, lastOp, historyVars, drainVars, threadVars>>

NextNames == ensafen \/ ensafen_again

SpecNames == InitNames /\ [][NextNames]_vars

\* ------------------------------------------------------------ _get_runtime
InitRuntime ==
    /\ StartAdapter("runtime", <<>>)
    /\ LsfIdle
    /\ BatchesIdle
    /\ rt_job_detail \in JobDetails
    /\ now_ms \in ClockReadings
    /\ runtime = <<>>

\* self._get_runtime(job_detail)
get_runtime_call ==
    /\ runtime = <<>>
    /\ runtime' = <<get_runtime(rt_job_detail, now_ms)>>
    /\ UNCHANGED <<adapterVars, localVars, backendVars, observe, environment, polls, nameVars, rt_job_detail, now_ms, lsfVars, batchVars, lastOp, historyVars, drainVars, threadVars>>

SpecRuntime == InitRuntime /\ [][get_runtime_call]_vars

\* ------------------------------------------------ _describe_jobs_in_batches
\* mutant: the batch is taken from the front of the list
check_batch_front(list) == SubSeq(list, 1, IF Len(list) > MAX_POLL_COUNT THEN MAX_POLL_COUNT ELSE Len(list))

\* to_check[-MAX_POLL_COUNT:]
check_batch(list) == SubSeq(list, (IF Len(list) > MAX_POLL_COUNT THEN Len(list) - MAX_POLL_COUNT ELSE 0) + 1, Len(list))

\* to_check[:-len(check_batch)]
popped(list, batch) == SubSeq(list, 1, Len(list) - Len(batch))

InitBatches ==
    /\ StartAdapter("batches", <<>>)
    /\ RuntimeIdle
    /\ LsfIdle
    /\ b_pc = "call"
    /\ b_registered \in 0 .. MaxRegistered
    /\ to_check = <<>>
    /\ check_batches = <<>>

batchFrame == UNCHANGED <<adapterVars, localVars, backendVars, observe, environment, polls, nameVars, runtimeVars, lsfVars, lastOp, historyVars, drainVars, threadVars, b_registered>>

\* Line 472: the handles of the registry, as a list (the handles are
\* numbered in the order of the dict).
b_list ==
    /\ b_pc = "call"
    /\ to_check' = [i \in 1 .. b_registered |-> i]
    /\ b_pc' = "while"
    /\ UNCHANGED check_batches
    /\ batchFrame

\* Lines 474-480: the next batch is cut off the list and described.
b_describe ==
    /\ b_pc = "while"
    /\ Len(to_check) > 0
    /\ check_batches' = Append(check_batches, check_batch(to_check))
    /\ to_check' = popped(to_check, check_batch(to_check))
    /\ b_pc' = "yield"
    /\ batchFrame

\* Line 480: describe_jobs raises for the next batch (nothing retries it);
\* the batch was not described and the generator ends with the error.
b_describe_failed ==
    /\ b_pc = "while"
    /\ Len(to_check) > 0
    /\ to_check' = popped(to_check, check_batch(to_check))
    /\ b_pc' = "raised"
    /\ UNCHANGED check_batches
    /\ batchFrame

\* Line 483: the caller has taken every JobDetail of the batch and asks for
\* the next.
b_resume ==
    /\ b_pc = "yield"
    /\ b_pc' = "while"
    /\ UNCHANGED <<to_check, check_batches>>
    /\ batchFrame

\* Line 483 with getUpdatedBatchJob as the caller: it returns the event of
\* a job of the batch (line 331) and the generator is not resumed.
b_abandon ==
    /\ b_pc = "yield"
    /\ b_pc' = "closed"
    /\ UNCHANGED <<to_check, check_batches>>
    /\ batchFrame

\* Line 474: the list is empty, the generator ends.
b_exhausted ==
    /\ b_pc = "while"
    /\ Len(to_check) = 0
    /\ b_pc' = "done"
    /\ UNCHANGED <<to_check, check_batches>>
    /\ batchFrame

NextBatches == b_list \/ b_describe \/ b_describe_failed \/ b_resume \/ b_abandon \/ b_exhausted

SpecBatches == InitBatches /\ [][NextBatches]_vars

\* ------------------------------------------- LSFBatchSystem.getJobExitCode
\* line.find(phrase) > -1
find(line, phrase) == phrase \in line

\* "return code" (NoUpdate: return None), and a TypeError that leaves the call
Exit(code) == [raised |-> FALSE, code |-> code]
TypeError == [raised |-> TRUE, code |-> NoUpdate]

\* The loop over the lines of 'bjobs -l' from the i-th on: the code it
\* returns, or that it ended without a return and whether it saw a start.
RECURSIVE scan_bjobs(_, _, _)
scan_bjobs(out, i, started) ==
    IF i > Len(out) THEN [returned |-> FALSE, code |-> NoUpdate, started |-> started]
    ELSE IF find(out[i], "Done successfully") THEN [returned |-> TRUE, code |-> 0, started |-> started]
    ELSE IF find(out[i], "Completed <exit>") THEN [returned |-> TRUE, code |-> 1, started |-> started]
    ELSE IF find(out[i], "New job is waiting for scheduling") THEN [returned |-> TRUE, code |-> NoUpdate, started |-> started]
    ELSE IF find(out[i], "PENDING REASONS") THEN [returned |-> TRUE, code |-> NoUpdate, started |-> started]
    ELSE scan_bjobs(out, i + 1, started \/ find(out[i], "Started on "))

\* The loop over the lines of 'bacct -l' from the i-th on, and the return
\* None after it.
RECURSIVE scan_bacct(_, _)
scan_bacct(out, i) ==
    IF i > Len(out) THEN NoUpdate
    ELSE IF find(out[i], "Completed <done>") THEN 0
    ELSE IF find(out[i], "Completed <exit>") THEN 1
    ELSE scan_bacct(out, i + 1)

\* '.' in lsfJobID: a str can be searched, a number raises TypeError
contains_dot_raises(id) == id.type # "str"

\* "... %d" % job: a number can be formatted, a str raises TypeError
format_d_raises(job) == job.type # "int"

\* job, task = lsfJobID.split('.', 1): the part before the dot, a str
split_job(id) == [type |-> "str", dotted |-> FALSE]

getJobExitCode(id, bjobs_out, bacct_out) ==
    IF contains_dot_raises(id) THEN TypeError
    ELSE LET job == IF id.dotted THEN split_job(id) ELSE id
         IN IF format_d_raises(job) THEN TypeError
            ELSE LET first == scan_bjobs(bjobs_out, 1, FALSE)
                 IN IF first.returned THEN Exit(first.code)
                    ELSE IF first.started THEN Exit(NoUpdate)
                    ELSE Exit(scan_bacct(bacct_out, 1))

InitLsf ==
    /\ StartAdapter("lsf", <<>>)
    /\ RuntimeIdle
    /\ BatchesIdle
    /\ lsfJobID \in LsfJobIDs
    /\ bjobs \in Outputs
    /\ bacct \in Outputs
    /\ exit_code = <<>>

\* self.getJobExitCode(lsfJobID)
getJobExitCode_call ==
    /\ exit_code = <<>>
    /\ exit_code' = <<getJobExitCode(lsfJobID, bjobs, bacct)>>
    /\ UNCHANGED <<adapterVars, localVars, backendVars, observe, environment, polls, nameVars, runtimeVars, lsfJobID, bjobs, bacct, batchVars, lastOp, historyVars, drainVars, threadVars>>

SpecLsf == InitLsf /\ [][getJobExitCode_call]_vars

\* ------------------------------------------------------------------ claims
Returned(op) == lastOp.op = op /\ ~lastOp.raised

\* C1: getUpdatedBatchJob returns a completion event for one internal job
\* id at most once, whatever calls are made and however the backend moves.
AtMostOnceCompletion == \A id \in JobIds : emitted[id] <= 1

\* C1 witness: a job's event was returned, its records are dropped, and a
\* later poll of the still registered other job returned nothing.
AtMostOnceCompletion_witness ==
    /\ Returned("getUpdatedBatchJob") /\ lastOp.ret = NoUpdate
    /\ Len(status) = 2 /\ Cardinality(DOMAIN aws_id_to_bs_id) = 1
    /\ \E id \in JobIds : emitted[id] = 1 /\ id \notin DOMAIN bs_id_to_aws_id

\* C2: once _try_terminate has flagged a job's handle, no step returns a
\* completion event for that job any more, whatever status it ends in.
KillSuppression == [][\A id \in everKilled : emitted'[id] = emitted[id]]_vars

\* C2 witness: a killed job that SUCCEEDED was dropped by a poll that
\* returned nothing.
KillSuppression_witness ==
    /\ Returned("getUpdatedBatchJob") /\ lastOp.ret = NoUpdate
    /\ status = <<"SUCCEEDED">> /\ everKilled = {0}
    /\ DOMAIN bs_id_to_aws_id = {} /\ emitted[0] = 0

\* C3: after killBatchJobs(ids) has returned normally, no later
\* getRunningBatchJobIDs result holds one of the ids.
KillConfirmation == Returned("getRunningBatchJobIDs") => lastOp.ids \cap killReturned = {}

\* C3 witness: a snapshot taken while a confirmed-killed job is still in
\* the registry shows the other job running and not the killed one.
KillConfirmation_witness ==
    /\ Returned("getRunningBatchJobIDs") /\ lastOp.ids # {}
    /\ killReturned \cap DOMAIN bs_id_to_aws_id # {}

\* C4: bs_id_to_aws_id and aws_id_to_bs_id are inverses of each other in
\* every state between operations.
IdMappingBijective ==
    /\ \A b \in DOMAIN bs_id_to_aws_id : bs_id_to_aws_id[b] \in DOMAIN aws_id_to_bs_id /\ aws_id_to_bs_id[bs_id_to_aws_id[b]] = b
    /\ \A a \in DOMAIN aws_id_to_bs_id : aws_id_to_bs_id[a] \in DOMAIN bs_id_to_aws_id /\ bs_id_to_aws_id[aws_id_to_bs_id[a]] = a

\* C4 witness: two jobs were tied to handles and a poll dropped one pair.
IdMappingBijective_witness ==
    /\ lastOp.op = "getUpdatedBatchJob"
    /\ Len(status) = 2 /\ Cardinality(DOMAIN aws_id_to_bs_id) = 1

\* C5: with k registered, not-killed jobs terminal at the backend and
\* nothing else happening, the first k getUpdatedBatchJob(0) calls return
\* events of k distinct jobs among them, each dropping the returned job's
\* records and no other's, and the call after them returns no update.
EventualDelivery ==
    /\ \A i \in 1 .. Len(drainResults) :
        IF i <= Cardinality(drainStart)
        THEN drainResults[i] \in drainStart /\ \A j \in 1 .. (i - 1) : drainResults[j] # drainResults[i]
        ELSE drainResults[i] = NoUpdate
    /\ \A id \in drainStart : (id \in DOMAIN bs_id_to_aws_id) <=> (id \notin Range(drainResults))

\* C5 witness: two jobs were deliverable and the third call has returned.
EventualDelivery_witness == Cardinality(drainStart) = 2 /\ Len(drainResults) = 3

\* C6: threads that enter _get_or_create_job_definition together while no
\* job definition is recorded make one register_job_definition call between
\* them and all get the same ARN.
TemplateSingleton ==
    /\ created <= 1
    /\ \A t1, t2 \in Threads : pc[t1] = "submit" /\ pc[t2] = "submit" => t_arn[t1] = t_arn[t2]

\* C7: one adapter instance registers at most one job definition, whatever
\* issueBatchJob and shutdown calls are made on it.
TemplateCreatedOnce == created <= 1

\* C8: when shutdown has ended, by returning or by raising, with a job
\* definition still recorded, it has called deregister_job_definition.
ShutdownAttemptsDeletion == lastOp.op = "shutdown" /\ job_definition # NoDefinition => lastOp.ret = 1

\* C9: a step in which checkResourceRequest rejects a non-local job raises
\* and changes neither the id counter, the registry, the killed-set, the
\* job definition nor anything at the backend.
AdmissionBeforeRemoteCall ==
    [][lastOp'.op = "issueBatchJob" /\ ~lastOp'.job.local /\ ~checkResourceRequest(lastOp'.job)
        => lastOp'.raised /\ UNCHANGED <<adapterVars, backendVars>>]_vars

\* C9 witness: the first call of a run was rejected.
AdmissionBeforeRemoteCall_witness ==
    /\ lastOp.op = "issueBatchJob" /\ lastOp.raised
    /\ ~lastOp.job.local /\ ~checkResourceRequest(lastOp.job)
    /\ nextJobID = 0 /\ created = 0

\* C10: the MEMORY value sent is the least whole number of MiB that is at
\* least MIN_REQUESTABLE_MIB and at least the requested bytes, and the VCPU
\* value the least whole number that is at least MIN_REQUESTABLE_CORES and
\* at least the requested cores.
RoundingMonotonicity ==
    lastOp.op = "issueBatchJob" /\ lastOp.sent # NoSent =>
        /\ lastOp.sent.MEMORY >= MIN_REQUESTABLE_MIB
        /\ lastOp.sent.MEMORY * MiB >= lastOp.job.memory
        /\ lastOp.sent.MEMORY = MIN_REQUESTABLE_MIB \/ (lastOp.sent.MEMORY - 1) * MiB < lastOp.job.memory
        /\ lastOp.sent.VCPU >= MIN_REQUESTABLE_CORES
        /\ lastOp.sent.VCPU * CoreUnit >= lastOp.job.cores
        /\ lastOp.sent.VCPU = MIN_REQUESTABLE_CORES \/ (lastOp.sent.VCPU - 1) * CoreUnit < lastOp.job.cores

\* C10 witness: memory 1 byte, cores 0.01 was submitted as 4 MiB, 1 vCPU.
RoundingMonotonicity_witness ==
    /\ Returned("issueBatchJob") /\ lastOp.ret # NoUpdate
    /\ lastOp.job.memory = 1 /\ lastOp.job.cores = 1
    /\ lastOp.sent = [MEMORY |-> MIN_REQUESTABLE_MIB, VCPU |-> MIN_REQUESTABLE_CORES]

\* the characters AWS Batch allows in a job name
Allowed(c) == isalnum(c) \/ c = "-" \/ c = "_"

\* C11: _ensafen_name returns the input with spaces as hyphens and every
\* character dropped that is not alphanumeric, '-' or '_', with a 'j' put
\* in front if that is empty or does not start alphanumeric, cut to 128
\* characters: a non-empty name of at most 128 allowed characters that
\* starts alphanumeric; "my job #1!!" gives "my-job-1".
NameSanitized ==
    safe_name # <<>> =>
        LET hyphens == [i \in 1 .. Len(input_name) |-> IF input_name[i] = " " THEN "-" ELSE input_name[i]]
            stripped == SelectSeq(hyphens, Allowed)
            full == IF stripped = <<>> \/ ~isalnum(Head(stripped)) THEN <<"j">> \o stripped ELSE stripped
        IN /\ Len(safe_name) = (IF Len(full) > 128 THEN 128 ELSE Len(full))
           /\ \A i \in 1 .. Len(safe_name) : safe_name[i] = full[i] /\ Allowed(safe_name[i])
           /\ Len(safe_name) >= 1 /\ Len(safe_name) <= 128
           /\ isalnum(safe_name[1])
           /\ input_name = my_job_1 => safe_name = <<"m", "y", "-", "j", "o", "b", "-", "1">>

\* C11 witness: a name of symbols only became the filler, and nothing else.
NameSanitized_witness == input_name = <<"#", "#">> /\ safe_name = <<"j">>

\* C12: applying _ensafen_name to its own result gives that result again.
NameSanitizedIdempotent == safe_twice # <<>> => safe_twice = safe_name

\* C12 witness: a name of more than 128 characters whose first kept
\* character is a hyphen was sanitized twice.
NameSanitizedIdempotent_witness == safe_twice # <<>> /\ Len(input_name) > NAME_LIMIT /\ input_name[1] = "-" /\ Len(safe_name) = NAME_LIMIT

\* C13: a completion event of a remote job carries the container exit code
\* the backend reported, or EXIT_STATUS_UNAVAILABLE_VALUE if it reported
\* none, and the exit reason FINISHED for status SUCCEEDED and FAILED for
\* FAILED, whatever the exit code; no other reason is emitted.
ExitStatusOfEvent ==
    Returned("getUpdatedBatchJob") /\ lastOp.more.status # "none" =>
        /\ lastOp.more.exitStatus = (IF lastOp.more.container.container /\ lastOp.more.container.exitCode # NoUpdate THEN lastOp.more.container.exitCode ELSE 255)
        /\ lastOp.more.status = "SUCCEEDED" => lastOp.more.exitReason = "FINISHED"
        /\ lastOp.more.status = "FAILED" => lastOp.more.exitReason = "FAILED"
        /\ lastOp.more.exitReason \in {"FINISHED", "FAILED"}

\* C13 witness: a SUCCEEDED report without an exit code gave the sentinel
\* and FINISHED.
ExitStatusOfEvent_witness ==
    /\ Returned("getUpdatedBatchJob") /\ lastOp.ret # NoUpdate
    /\ lastOp.more.status = "SUCCEEDED" /\ lastOp.more.container = [container |-> TRUE, exitCode |-> NoUpdate]
    /\ lastOp.more.exitStatus = EXIT_STATUS_UNAVAILABLE_VALUE /\ lastOp.more.exitReason = "FINISHED"

\* C14: a getUpdatedBatchJob(0) call makes one pass, with one local check
\* and, unless that has a result, one batched describe of the registered
\* handles; it never sleeps; it returns None when the pass found no
\* registered, not-killed terminal job.
NonBlockingPoll ==
    [][lastOp'.op = "getUpdatedBatchJob" /\ lastOp'.more.maxWait = 0 =>
        /\ lastOp'.more.passes = 1
        /\ lastOp'.more.sleeps = 0
        /\ lastOp'.more.describes = (IF localUpdated # {} THEN 0 ELSE 1)
        /\ ~lastOp'.raised /\ localUpdated = {} /\ Deliverable = {} => lastOp'.ret = NoUpdate]_vars

\* C14 witness: a poll with maxWait 0 returned None while a job that is not
\* finished is registered.
NonBlockingPoll_witness ==
    /\ Returned("getUpdatedBatchJob") /\ lastOp.ret = NoUpdate
    /\ lastOp.more.maxWait = 0 /\ lastOp.more.sleeps = 0
    /\ \E h \in DOMAIN aws_id_to_bs_id : status[h] = "RUNNING"

\* C17: an error of the retryable kind reaches the caller of an operation
\* only after the backend call that raised it was made RETRY_ATTEMPTS times,
\* whichever backend call it is.
UniformRetry == lastOp.raised /\ lastOp.more.cause = "transient" => lastOp.more.attempts = RETRY_ATTEMPTS

\* C18: a killBatchJobs call in which the backend answered a cancel with
\* 'not found' returns normally.
KillGoneSucceeds == lastOp.op = "killBatchJobs" /\ lastOp.more.cause = "notfound" => ~lastOp.raised

\* C19: killBatchJobs changes nothing for an id that is not in the
\* registry: it flags and stops only handles of registered ids of its
\* list, leaves registry, id counter and job definition alone, and with no
\* registered id in the list it returns normally with the killed-set and
\* the backend unchanged.
KillUnknownNoop ==
    [][lastOp'.op = "killBatchJobs" =>
        LET known == lastOp'.more.job_ids \cap DOMAIN bs_id_to_aws_id
            handles == {bs_id_to_aws_id[id] : id \in known}
        IN /\ UNCHANGED <<nextJobID, job_definition, bs_id_to_aws_id, aws_id_to_bs_id, registered, created>>
           /\ (killed_job_aws_ids' \ killed_job_aws_ids) \subseteq handles
           /\ \A h \in Handles \ handles : status'[h] = status[h]
           /\ known = {} => ~lastOp'.raised /\ UNCHANGED <<killed_job_aws_ids, status>>]_vars

\* C19 witness: a kill of a reconciled id and a never issued id returned
\* while another job is registered and not flagged.
KillUnknownNoop_witness ==
    /\ Returned("killBatchJobs") /\ lastOp.more.job_ids = {0, UnknownId}
    /\ DOMAIN bs_id_to_aws_id = {1} /\ Len(status) = 2 /\ killed_job_aws_ids = {}

\* C15: a poll whose describe answer holds a terminal job twice, or a
\* terminal job whose handle is not in the registry, raises no error.
DuplicateReportsIgnored == lastOp.op = "getUpdatedBatchJob" /\ lastOp.more.unfaithful => ~lastOp.raised

\* C16: a registered, not-killed job whose handle the backend no longer
\* returns is, while it stays registered and not killed, eventually returned
\* by a poll as a completion event.
LostContactReported ==
    \A id \in 0 .. (MaxJobs - 1) :
        (id \in DOMAIN bs_id_to_aws_id /\ status[bs_id_to_aws_id[id]] = "GONE" /\ bs_id_to_aws_id[id] \notin killed_job_aws_ids)
        ~> \/ lastOp.op = "getUpdatedBatchJob" /\ lastOp.ret = id
           \/ id \notin DOMAIN bs_id_to_aws_id
           \/ bs_id_to_aws_id[id] \in killed_job_aws_ids

\* C20: submit_job is given the adapter-wide environment overridden name by
\* name by the call's job_environment; issueBatchJob leaves the adapter-wide
\* environment as it is, and only setEnv changes it, by the one name it sets.
EnvironmentMerging ==
    [][/\ lastOp'.op = "issueBatchJob" => environment' = environment
       /\ lastOp'.op = "issueBatchJob" /\ lastOp'.more.submitted =>
            /\ DOMAIN lastOp'.more.environment = DOMAIN environment \cup DOMAIN lastOp'.more.job_environment
            /\ \A k \in DOMAIN lastOp'.more.environment :
                lastOp'.more.environment[k] = IF k \in DOMAIN lastOp'.more.job_environment THEN lastOp'.more.job_environment[k] ELSE environment[k]
       /\ environment' # environment =>
            /\ lastOp'.op = "setEnv"
            /\ \E name \in DOMAIN environment' : \A k \in DOMAIN environment : k # name => k \in DOMAIN environment' /\ environment'[k] = environment[k]]_vars

\* C20 witness: with FOO and BAR set adapter-wide, a submission overrode
\* FOO for itself and left the adapter-wide FOO as it was.
EnvironmentMerging_witness ==
    /\ lastOp.op = "issueBatchJob" /\ lastOp.more.submitted
    /\ environment = [k \in {"FOO", "BAR"} |-> "baz"]
    /\ lastOp.more.job_environment = [k \in {"FOO"} |-> "bar"]
    /\ lastOp.more.environment = [k \in {"FOO", "BAR"} |-> IF k = "FOO" THEN "bar" ELSE "baz"]

\* C21: a successful issueBatchJob returns an id that is not outstanding and
\* adds exactly that id to getIssuedBatchJobIDs, for a remote job as one
\* registry pair of the id and a handle not registered before; the ids of
\* the registry change in no other way than by such a call adding its id
\* and by a poll removing ids, and a job whose event a poll returns is not
\* outstanding after it.
OutstandingSet ==
    [][/\ lastOp'.op = "issueBatchJob" /\ ~lastOp'.raised =>
            /\ lastOp'.ret \notin getIssuedBatchJobIDs
            /\ getIssuedBatchJobIDs' = getIssuedBatchJobIDs \cup {lastOp'.ret}
            /\ ~lastOp'.job.local =>
                /\ DOMAIN bs_id_to_aws_id' = DOMAIN bs_id_to_aws_id \cup {lastOp'.ret}
                /\ \A b \in DOMAIN bs_id_to_aws_id : bs_id_to_aws_id'[b] = bs_id_to_aws_id[b]
                /\ bs_id_to_aws_id'[lastOp'.ret] \notin DOMAIN aws_id_to_bs_id
                /\ aws_id_to_bs_id' = Put(aws_id_to_bs_id, bs_id_to_aws_id'[lastOp'.ret], lastOp'.ret)
       /\ DOMAIN bs_id_to_aws_id' # DOMAIN bs_id_to_aws_id =>
            \/ lastOp'.op = "issueBatchJob" /\ ~lastOp'.raised /\ ~lastOp'.job.local
            \/ lastOp'.op = "getUpdatedBatchJob" /\ DOMAIN bs_id_to_aws_id' \subseteq DOMAIN bs_id_to_aws_id
       /\ lastOp'.op = "getUpdatedBatchJob" /\ ~lastOp'.raised /\ lastOp'.ret # NoUpdate => lastOp'.ret \notin getIssuedBatchJobIDs'
       /\ DOMAIN bs_id_to_aws_id' \cap localRunning' = {}]_vars

\* C21 witness: with a local job outstanding, a remote job was issued under
\* the next id and both are listed.
OutstandingSet_witness ==
    /\ Returned("issueBatchJob") /\ lastOp.ret = 1 /\ ~lastOp.job.local
    /\ localRunning = {0} /\ DOMAIN bs_id_to_aws_id = {1}
    /\ getIssuedBatchJobIDs = {0, 1}

\* C22: with a thread issuing, one polling and one killing, a thread that
\* finds an id in bs_id_to_aws_id (the killing thread at lines 510-512)
\* finds the id's handle in aws_id_to_bs_id too, tied to that id: it never
\* sees one direction of a pair without the other.
RegistryAtomic ==
    [][k_pc = "idle" /\ k_pc' = "try_terminate" =>
        k_aws_id' \in DOMAIN aws_id_to_bs_id /\ bs_id_to_aws_id[aws_id_to_bs_id[k_aws_id']] = k_aws_id']_vars

\* C23: when the polling thread composes the completion event of a job
\* (line 331), the job's handle is not in the killed-set: no kill running
\* in another thread has flagged it.
NoEventAfterFlag == [][p_pc = "compose" /\ p_pc' = "finally" => Head(p_jobs) \notin killed_job_aws_ids]_vars

\* C26: the wall time of the event of a finished job (status SUCCEEDED or
\* FAILED) is None when the JobDetail has no startedAt; otherwise it is
\* stoppedAt, or the clock's reading when there is no stoppedAt, minus
\* startedAt, in seconds, and epsilon when that is not more than epsilon;
\* a wall time that is not None is more than zero.
WallTime ==
    runtime # <<>> /\ "status" \in rt_job_detail.keys /\ rt_job_detail.status \in {"SUCCEEDED", "FAILED"} =>
        LET wallTime == runtime[1]
            stopped == IF "stoppedAt" \in rt_job_detail.keys THEN rt_job_detail.stoppedAt ELSE now_ms
            elapsed == stopped - rt_job_detail.startedAt
        IN /\ wallTime.none <=> "startedAt" \notin rt_job_detail.keys
           /\ ~wallTime.none =>
                /\ elapsed > 0 => wallTime.ms = elapsed /\ wallTime.epsilons = 0
                /\ elapsed <= 0 => wallTime.ms = 0 /\ wallTime.epsilons = 1
                /\ wallTime.ms >= 0 /\ wallTime.epsilons >= 0 /\ wallTime.ms + wallTime.epsilons > 0

\* C26 witness: a job that stopped in the millisecond it started has the
\* wall time epsilon, while the clock reads later.
WallTime_witness ==
    /\ runtime = <<Epsilon>>
    /\ rt_job_detail = Detail({"status", "startedAt", "stoppedAt"}, "SUCCEEDED", 1000, 1000)
    /\ now_ms = 4000

\* C27: getJobExitCode returns 1 only when a line of the output of bjobs or
\* of bacct holds 'Completed <exit>', and when no line of either output
\* holds one of the phrases it looks for, it returns None.
NeverInventsFailure ==
    exit_code # <<>> =>
        LET phrases(out) == UNION {out[i] : i \in 1 .. Len(out)}
        IN /\ ~exit_code[1].raised /\ exit_code[1].code = 1 => "Completed <exit>" \in phrases(bjobs) \cup phrases(bacct)
           /\ phrases(bjobs) \cup phrases(bacct) = {} => ~exit_code[1].raised /\ exit_code[1].code = NoUpdate

\* a step that is a getUpdatedBatchJob call
PollStep == lastOp'.op = "getUpdatedBatchJob" /\ status' = status /\ localRunning' = localRunning

\* the handle of the job whose event the call of the step returns (0: none)
EventOf == IF lastOp'.ret \in DOMAIN bs_id_to_aws_id THEN bs_id_to_aws_id[lastOp'.ret] ELSE 0

\* the loop of the call of the step has come to the JobDetail of handle h:
\* it is in the answer, before the job whose event is returned if there is one
SeenBy(h) ==
    \E i \in 1 .. Len(lastOp'.more.answer) :
        /\ lastOp'.more.answer[i] = h
        /\ \A j \in 1 .. i : lastOp'.more.answer[j] # EventOf

\* C28: killBatchJobs leaves the registry as it is, so the ids it was given
\* stay issued; a poll whose loop comes to a killed job that is SUCCEEDED or
\* FAILED removes both of its entries and its flag and does not return its
\* event, whether or not the call goes on to return the event of another job.
KilledJobReconciled ==
    [][/\ lastOp'.op = "killBatchJobs" =>
            /\ bs_id_to_aws_id' = bs_id_to_aws_id /\ aws_id_to_bs_id' = aws_id_to_bs_id
            /\ DOMAIN bs_id_to_aws_id \subseteq getIssuedBatchJobIDs'
       /\ PollStep =>
            \A h \in DOMAIN aws_id_to_bs_id : h \in killed_job_aws_ids /\ BackendTerminal(status[h]) =>
                /\ lastOp'.ret # aws_id_to_bs_id[h]
                /\ SeenBy(h) =>
                    /\ h \notin DOMAIN aws_id_to_bs_id'
                    /\ aws_id_to_bs_id[h] \notin DOMAIN bs_id_to_aws_id'
                    /\ h \notin killed_job_aws_ids']_vars

\* C28 witness: one poll went through the answer <<1, 2>>, dropped the
\* killed job of handle 1 and returned the event of the job of handle 2.
KilledJobReconciled_witness ==
    /\ Returned("getUpdatedBatchJob") /\ lastOp.ret = 1
    /\ lastOp.more.answer = <<1, 2>>
    /\ DOMAIN bs_id_to_aws_id = {} /\ DOMAIN aws_id_to_bs_id = {}
    /\ killed_job_aws_ids = {}

\* C29: a poll removes the entries of a job only if its loop came to the
\* job and the job was SUCCEEDED or FAILED: the job whose event it returns,
\* and killed jobs before it in the answer. All other entries stay as they
\* were, a job that was not killed loses its entries only to the call that
\* returns its event, and a call that raises removes nothing.
PollFrame ==
    [][PollStep =>
        LET removed == DOMAIN bs_id_to_aws_id \ DOMAIN bs_id_to_aws_id'
        IN /\ DOMAIN bs_id_to_aws_id' \subseteq DOMAIN bs_id_to_aws_id
           /\ \A b \in DOMAIN bs_id_to_aws_id' : bs_id_to_aws_id'[b] = bs_id_to_aws_id[b]
           /\ DOMAIN aws_id_to_bs_id' = DOMAIN aws_id_to_bs_id \ {bs_id_to_aws_id[b] : b \in removed}
           /\ \A h \in DOMAIN aws_id_to_bs_id' : aws_id_to_bs_id'[h] = aws_id_to_bs_id[h]
           /\ killed_job_aws_ids' = killed_job_aws_ids \ {bs_id_to_aws_id[b] : b \in removed}
           /\ \A b \in removed :
                /\ BackendTerminal(status[bs_id_to_aws_id[b]])
                /\ \/ b = lastOp'.ret
                   \/ bs_id_to_aws_id[b] \in killed_job_aws_ids /\ SeenBy(bs_id_to_aws_id[b])
           /\ \A b \in removed : bs_id_to_aws_id[b] \notin killed_job_aws_ids => ~lastOp'.raised /\ lastOp'.ret = b
           /\ lastOp'.raised => removed = {}
           /\ nextJobID' = nextJobID /\ job_definition' = job_definition]_vars

\* C29 witness: a poll went through the answer <<2, 1>> and returned the
\* event of the job of handle 2; the job of handle 1, finished as well,
\* came after it and is still registered.
PollFrame_witness ==
    /\ Returned("getUpdatedBatchJob") /\ lastOp.ret = 1
    /\ lastOp.more.answer = <<2, 1>>
    /\ bs_id_to_aws_id = Put(EmptyDict, 0, 1) /\ aws_id_to_bs_id = Put(EmptyDict, 1, 0)
    /\ BackendTerminal(status[1]) /\ killed_job_aws_ids = {}

\* C31: among the backend calls of a killBatchJobs call no terminate_job
\* comes after a describe_jobs, and when the call has begun a wait, it has
\* called terminate_job for the handle of every registered id of its list.
CancelAllThenWaitAll ==
    lastOp.op = "killBatchJobs" =>
        LET calls == lastOp.more.calls
            cancelled == {calls[i][2] : i \in {j \in 1 .. Len(calls) : calls[j][1] = "terminate_job"}}
        IN /\ \A i, j \in 1 .. Len(calls) : calls[i][1] = "describe_jobs" /\ calls[j][1] = "terminate_job" => j < i
           /\ (\E i \in 1 .. Len(calls) : calls[i][1] = "describe_jobs") =>
                \A id \in lastOp.more.job_ids : id \in DOMAIN bs_id_to_aws_id => bs_id_to_aws_id[id] \in cancelled

\* C31 witness: a killBatchJobs call for two registered jobs has cancelled
\* both and then waited for both.
CancelAllThenWaitAll_witness ==
    /\ Returned("killBatchJobs") /\ lastOp.more.job_ids = {0, 1}
    /\ lastOp.more.calls = <<<<"terminate_job", 1>>, <<"terminate_job", 2>>, <<"describe_jobs", 1>>, <<"describe_jobs", 2>>>>

\* C32: _wait_until_stopped returns only when its last describe showed no
\* job or a job that is SUCCEEDED or FAILED; and once the backend has the
\* job as stopped or gone, the call ends.
ConfirmedDeathWait ==
    /\ [][k_pc = "described" /\ k_pc' = "idle" => w_seen \in {"GONE", "SUCCEEDED", "FAILED"}]_vars
    /\ [][k_pc = "described" /\ w_seen \notin {"GONE", "SUCCEEDED", "FAILED"} => k_pc' \in {"described", "wait"}]_vars
    /\ (k_pc \in {"wait", "described"} /\ status[k_aws_id] \in {"GONE", "SUCCEEDED", "FAILED"}) ~> (k_pc = "idle")

\* C32 witness: the wait has seen the job running and sleeps, after an
\* attempt that failed; it has not returned.
ConfirmedDeathWait_witness ==
    /\ k_pc = "described" /\ w_seen = "RUNNING" /\ w_attempt = 1
    /\ k_aws_id \in killed_job_aws_ids

\* how many of the describe calls made so far carry the handle h
TimesDescribed(h) == Cardinality({<<k, i>> \in (1 .. Len(check_batches)) \X (1 .. MAX_POLL_COUNT) : i <= Len(check_batches[k]) /\ check_batches[k][i] = h})

LocalResultsFirst ==
    [][PollStep /\ localUpdated # {} =>
        /\ ~lastOp'.raised
        /\ lastOp'.ret \in localUpdated
        /\ localUpdated' = localUpdated \ {lastOp'.ret}
        /\ lastOp'.more.describes = 0 /\ lastOp'.more.sleeps = 0
        /\ aws_id_to_bs_id' = aws_id_to_bs_id /\ bs_id_to_aws_id' = bs_id_to_aws_id
        /\ killed_job_aws_ids' = killed_job_aws_ids]_vars

\* C34 witness: a poll has returned a local completion without a describe
\* call while a finished remote job that is not killed was registered; it
\* is still registered.
LocalResultsFirst_witness ==
    /\ Returned("getUpdatedBatchJob") /\ lastOp.ret \notin DOMAIN bs_id_to_aws_id /\ lastOp.ret # NoUpdate
    /\ lastOp.more.describes = 0
    /\ \E h \in DOMAIN aws_id_to_bs_id : status[h] = "SUCCEEDED" /\ h \notin killed_job_aws_ids

\* the step is an issueBatchJob call that raised after it had built the
\* request for submit_job
SubmitFailedStep == lastOp'.op = "issueBatchJob" /\ lastOp'.raised /\ lastOp'.sent # NoSent /\ nextJobID' # nextJobID

\* C35: an issueBatchJob call whose submit_job raises ends with the error,
\* adds nothing to either registry map and leaves the killed-set as it was;
\* its id (the counter's value) is used up for good, since the counter only
\* grows, an id enters getIssuedBatchJobIDs only as the id a successful
\* issueBatchJob returns, which is the counter's value at that call, and a
\* poll returns only ids that were issued.
FailedSubmissionLeavesNoTrace ==
    /\ [][SubmitFailedStep =>
            /\ aws_id_to_bs_id' = aws_id_to_bs_id /\ bs_id_to_aws_id' = bs_id_to_aws_id
            /\ killed_job_aws_ids' = killed_job_aws_ids
            /\ nextJobID' = nextJobID + 1
            /\ nextJobID \notin getIssuedBatchJobIDs']_vars
    /\ [][nextJobID' >= nextJobID]_vars
    /\ [][\A id \in getIssuedBatchJobIDs' \ getIssuedBatchJobIDs :
            /\ lastOp'.op = "issueBatchJob" /\ ~lastOp'.raised /\ lastOp'.ret = id
            /\ id = nextJobID /\ nextJobID' = nextJobID + 1]_vars
    /\ [][PollStep /\ lastOp'.ret # NoUpdate => lastOp'.ret \in DOMAIN bs_id_to_aws_id \cup localUpdated]_vars
    /\ [][localUpdated' \subseteq localUpdated \cup localRunning]_vars

\* C35 witness: the submission of the second job has just failed; the first
\* job is registered, the second id is not.
FailedSubmissionLeavesNoTrace_witness ==
    /\ lastOp.op = "issueBatchJob" /\ lastOp.raised /\ lastOp.sent # NoSent
    /\ nextJobID = 2 /\ getIssuedBatchJobIDs = {0}
    /\ DOMAIN aws_id_to_bs_id = {1} /\ killed_job_aws_ids = {}

\* the first line of out that holds one of the phrases (0: none does)
FirstWith(out, phrases) ==
    IF \E i \in 1 .. Len(out) : out[i] \cap phrases # {}
    THEN CHOOSE i \in 1 .. Len(out) : out[i] \cap phrases # {} /\ \A j \in 1 .. (i - 1) : out[j] \cap phrases = {}
    ELSE 0

\* C36: getJobExitCode returns what the first line of bjobs with a success,
\* failure or pending marker says (0, 1, None), whether or not a 'Started
\* on' line precedes it; without such a line it returns None if bjobs has a
\* 'Started on' line; otherwise it returns what the first line of bacct with
\* 'Completed <done>' (0) or 'Completed <exit>' (1) says, and None without one.
ParserCascade ==
    exit_code # <<>> =>
        LET m == FirstWith(bjobs, {"Done successfully", "Completed <exit>", "New job is waiting for scheduling", "PENDING REASONS"})
            a == FirstWith(bacct, {"Completed <done>", "Completed <exit>"})
            expected ==
                IF m # 0 THEN (IF "Done successfully" \in bjobs[m] THEN 0 ELSE IF "Completed <exit>" \in bjobs[m] THEN 1 ELSE NoUpdate)
                ELSE IF FirstWith(bjobs, {"Started on "}) # 0 THEN NoUpdate
                ELSE IF a # 0 THEN (IF "Completed <done>" \in bacct[a] THEN 0 ELSE 1)
                ELSE NoUpdate
        IN ~exit_code[1].raised /\ exit_code[1].code = expected

\* C37: getRunningBatchJobIDs changes neither registry map, the killed-set
\* nor the job definition; each id it returns is the id of a registered job
\* whose JobDetail has status RUNNING and a 'startedAt', with a runtime that
\* is more than zero; a job that is queued or STARTING, finished, not in the
\* backend's answer, or RUNNING without 'startedAt' is not returned.
RunningSnapshotContents ==
    [][lastOp'.op = "getRunningBatchJobIDs" =>
        /\ aws_id_to_bs_id' = aws_id_to_bs_id /\ bs_id_to_aws_id' = bs_id_to_aws_id
        /\ killed_job_aws_ids' = killed_job_aws_ids /\ job_definition' = job_definition
        /\ ~lastOp'.raised =>
            LET d == lastOp'.more.details
                snap == lastOp'.more.snapshot
            IN /\ lastOp'.ids = DOMAIN snap
               /\ \A id \in DOMAIN snap :
                    /\ id \in DOMAIN bs_id_to_aws_id /\ bs_id_to_aws_id[id] \in DOMAIN d
                    /\ status[bs_id_to_aws_id[id]] = "RUNNING"
                    /\ d[bs_id_to_aws_id[id]].status = "RUNNING" /\ "startedAt" \in d[bs_id_to_aws_id[id]].keys
                    /\ ~snap[id].none /\ snap[id].ms >= 0 /\ snap[id].epsilons >= 0 /\ snap[id].ms + snap[id].epsilons > 0
               /\ \A h \in DOMAIN aws_id_to_bs_id :
                    (h \notin DOMAIN d \/ d[h].status # "RUNNING" \/ "startedAt" \notin d[h].keys) => aws_id_to_bs_id[h] \notin DOMAIN snap]_vars

\* C37 witness: of two registered jobs that are RUNNING, the one whose
\* JobDetail has a 'startedAt' is returned and the other is not.
RunningSnapshotContents_witness ==
    /\ lastOp.op = "getRunningBatchJobIDs" /\ ~lastOp.raised
    /\ Cardinality(lastOp.ids) = 1 /\ Cardinality(DOMAIN aws_id_to_bs_id) = 2
    /\ \A h \in DOMAIN aws_id_to_bs_id : h \in DOMAIN lastOp.more.details /\ lastOp.more.details[h].status = "RUNNING"

\* C38: whatever calls are made one after the other, every handle in the
\* killed-set is a key of aws_id_to_bs_id.
KilledSetContained == killed_job_aws_ids \subseteq DOMAIN aws_id_to_bs_id

\* C38 witness: two jobs were killed; a poll has dropped the first with its
\* flag, the second is still registered and flagged.
KilledSetContained_witness ==
    /\ Returned("getUpdatedBatchJob")
    /\ everKilled = {0, 1}
    /\ killed_job_aws_ids = {2} /\ DOMAIN aws_id_to_bs_id = {2}

\* C39: when killBatchJobs has raised because terminate_job was rejected for
\* a handle (its last backend call is that terminate_job, and the error is
\* not 'not found'), the handle is not in the killed-set, so that a later
\* poll can return the job's event.
FailedCancelNotSilenced ==
    LET calls == lastOp.more.calls IN
    lastOp.op = "killBatchJobs" /\ lastOp.raised /\ calls # <<>> /\ calls[Len(calls)][1] = "terminate_job" =>
        calls[Len(calls)][2] \notin killed_job_aws_ids

\* the events thread t has returned, the one its finished call is about to
\* hand to its caller included
EventsOf(t) == polls[t].events \o (IF polls[t].pc = "done" /\ polls[t].result # NoUpdate THEN <<polls[t].result>> ELSE <<>>)

\* C40: of two getUpdatedBatchJob calls that run in different threads and
\* have both acknowledged the same finished, not-killed job, at most one
\* returns the job's event; and over all their calls the two threads
\* together return the event of a job at most once.
ConcurrentPollsDeliverOnce ==
    /\ \A id \in JobIds : polls[1].result = id /\ polls[2].result = id => polls[1].pc # "done" \/ polls[2].pc # "done"
    /\ \A id \in JobIds : Cardinality({<<t, i>> \in PollThreads \X (1 .. (MaxJobs + 1)) : i <= Len(EventsOf(t)) /\ EventsOf(t)[i] = id}) <= 1

\* C40 witness: both threads acknowledged the job of id 0 and began to
\* return its event; thread 1 has returned it, thread 2 has ended with the
\* KeyError of line 336.
ConcurrentPollsDeliverOnce_witness ==
    /\ polls[1].pc = "done" /\ polls[1].result = 0 /\ ~polls[1].raised
    /\ polls[2].pc = "done" /\ polls[2].raised /\ polls[2].result = NoUpdate
    /\ polls[2].acknowledged # <<>> /\ Head(polls[2].acknowledged)[2] = 0

\* C24 as stated: after a shutdown call, however it ended, every handle of
\* the registry is in the killed-set (it was cancelled and marked); and no
\* poll returns the completion event of a job that was in the registry at a
\* shutdown.
ShutdownKillsEverything ==
    /\ lastOp.op = "shutdown" => DOMAIN aws_id_to_bs_id \subseteq killed_job_aws_ids
    /\ Returned("getUpdatedBatchJob") /\ lastOp.ret # NoUpdate => lastOp.ret \notin atShutdown

\* What holds of shutdown in the code: when shutdown has made its cancels (it returned, or raised only in
\* the deletion of the job definition that follows them), every handle of
\* the registry is in the killed-set; and no poll returns the completion
\* event of a job that was in the registry at such a shutdown.
ShutdownKillsAll ==
    /\ lastOp.op = "shutdown" /\ (~lastOp.raised \/ lastOp.ret = 1) =>
        /\ DOMAIN aws_id_to_bs_id \subseteq killed_job_aws_ids
        /\ DOMAIN bs_id_to_aws_id \subseteq atShutdown
    /\ Returned("getUpdatedBatchJob") /\ lastOp.ret # NoUpdate => lastOp.ret \notin atShutdown

\* C24 witness: of two jobs outstanding at a shutdown, one has finished
\* since and a poll has dropped it without returning an event, while a job
\* issued after the shutdown is outstanding.
ShutdownKillsAll_witness ==
    /\ Returned("getUpdatedBatchJob") /\ lastOp.ret = NoUpdate
    /\ atShutdown = {0} /\ DOMAIN bs_id_to_aws_id = {1}
    /\ status[1] = "SUCCEEDED" /\ killed_job_aws_ids = {}

\* C25: an issueBatchJob call leaves every pair of the registry as it was,
\* and ties its new id only to a handle that was not registered (a call
\* whose handle is registered raises and stores nothing).
DuplicateIdRejected ==
    [][nextJobID' # nextJobID =>
        /\ \A h \in DOMAIN aws_id_to_bs_id : h \in DOMAIN aws_id_to_bs_id' /\ aws_id_to_bs_id'[h] = aws_id_to_bs_id[h]
        /\ \A b \in DOMAIN bs_id_to_aws_id : b \in DOMAIN bs_id_to_aws_id' /\ bs_id_to_aws_id'[b] = bs_id_to_aws_id[b]
        /\ \A b \in DOMAIN bs_id_to_aws_id' \ DOMAIN bs_id_to_aws_id : bs_id_to_aws_id'[b] \notin DOMAIN aws_id_to_bs_id]_vars

\* the killing thread makes its terminate_job call in this step
Cancels ==
    /\ k_pc = "try_terminate" /\ k_i <= Len(try_terminate) /\ try_terminate[k_i] = "terminate_job"
    /\ k_i' # k_i \/ k_pc' # k_pc \/ k_attempt' # k_attempt

\* C30: whenever _try_terminate, called by killBatchJobs or by shutdown,
\* makes its terminate_job call, on the first attempt or on a retry, it has
\* added the handle to the killed-set before, in that same attempt.
FlagBeforeCancel == [][Cancels => k_added]_vars

\* C30 witness: in a shutdown, the cancel of the second attempt has gone
\* through after the handle was added again.
FlagBeforeCancel_witness ==
    /\ k_pc = "try_terminate" /\ k_op = "shutdown" /\ k_attempt = 2
    /\ k_i > Len(try_terminate) /\ k_added

====
